---- MODULE Spec2Model ----
(***************************************************************************)
(* Model of the gt8004 SDK's batching transport (gt8004/transport.py) and  *)
(* of the logger facade that wraps it (gt8004/logger.py).                  *)
(*                                                                         *)
(* The transport runs on one asyncio event loop: a coroutine runs without  *)
(* interruption from one suspension point (a lock that is taken, a POST, a *)
(* sleep, the await of a task) to the next.  Each action below is one such *)
(* run.  Time is kept relative to the clock: a timer holds the seconds     *)
(* that remain, and Tick lets one second pass.                             *)
(***************************************************************************)
EXTENDS Integers, Sequences, FiniteSets, TLC

\* ------------------------------------------------------------------ bounds
MaxEntries == 2          \* entries created (add() and ping entries together)
MaxBatchSize == 2        \* batch_size is drawn from 1..MaxBatchSize
MaxFailures == 6         \* cap of consecutive_failures
FlushIntervalSeconds == 2 \* the flush_interval the transport is built with

\* ------------------------------------------------------- program constants
MaxAttempts == 3              \* for attempt in range(3)
FailureThreshold == 5         \* if self.consecutive_failures >= 5
CircuitBreakerSeconds == 30   \* time.time() + 30

Callers == {"h1"}             \* application coroutines using the transport
TaskOrder == <<"t1", "t2">>   \* tasks start_auto_flush() can create, in order
Tasks == {TaskOrder[i] : i \in 1..Len(TaskOrder)}
Procs == Callers \cup Tasks
None == "none"

\* What one POST can end in, and what client.post / raise_for_status raise
Outcomes == {"2xx", "non_2xx", "network_error", "timeout"}

Raised(outcome) ==
    CASE outcome = "non_2xx" -> "HTTPStatusError"
      [] outcome = "network_error" -> "ConnectError"
      [] outcome = "timeout" -> "TimeoutException"

\* Mutant: the handler catches HTTP status errors only
IsHTTPStatusErrorOnly(exc) == exc = "HTTPStatusError"

\* The classes `except Exception` catches; CancelledError derives from
\* BaseException only.
IsException(exc) ==
    exc \in {"HTTPStatusError", "ConnectError", "TimeoutException", "RuntimeError",
             "ValueError"}

VARIABLES
    batch_size,             \* self.batch_size
    buffer,                 \* self.buffer: sequence of entry ids
    lock_holder,            \* self.lock: the coroutine holding it, or None
    lock_waiters,           \* self.lock: the coroutines queued on it, FIFO
    client_open,            \* self.client: FALSE once aclose() has run
    flush_task,             \* self.flush_task: a task, or None
    consecutive_failures,   \* self.consecutive_failures
    circuit_breaker_until,  \* self.circuit_breaker_until - time.time(), 0 once passed
    pr,                     \* each coroutine's position and locals
    nextId,                 \* the id the next entry created gets
    pings,                  \* ids of the entries verify_connection() built
    delivered,              \* the batches answered 2xx, in order
    facade,                 \* the GT8004Logger around the transport, and its entries
    middleware              \* one call observed by a middleware adapter

vars == <<batch_size, buffer, lock_holder, lock_waiters, client_open, flush_task,
          consecutive_failures, circuit_breaker_until, pr, nextId, pings, delivered,
          facade, middleware>>

\* An argument a call leaves out
Omitted == "omitted"

\* No GT8004Logger(...) call made yet, hence no transport of a logger
NoTransport == [created |-> FALSE, ingest_url |-> None]

NoLogger ==
    [called |-> FALSE, raised |-> None, allowed |-> {}, protocol |-> None,
     transport |-> NoTransport]

\* The transport used on its own: no GT8004Logger, no entry contents
NoFacade ==
    [logger |-> NoLogger,
     args |-> [network |-> Omitted, ingest_url |-> Omitted, protocol |-> Omitted],
     given |-> <<>>, protocol |-> <<>>,
     entry |-> [f \in {} |-> None], dumped |-> FALSE, wire |-> {}, batch_wire |-> {}]

\* A JSON value or Python object as the middleware sees it: its type, its text
\* when it is a string, its number when it is an int or a bool.  "absent" is
\* a key the object does not have; "dict" and "list" stand for non-empty ones.
J(type, s, n) == [type |-> type, s |-> s, n |-> n]

JAbsent == J("absent", "", 0)
JNone == J("null", "", 0)
JDict == J("dict", "", 0)
JList == J("list", "", 0)
JStr(s) == J("str", s, 0)
JInt(n) == J("int", "", n)
JBool(b) == J("bool", "", IF b THEN 1 ELSE 0)

\* An Optional[int] or Optional[float]: None, or the fraction num / den
Nothing == [none |-> TRUE, num |-> 0, den |-> 1]
Some(n) == [none |-> FALSE, num |-> n, den |-> 1]

\* A JSON document: its top-level type and, for an object, the keys the
\* middleware reads
NoDoc ==
    [type |-> "none", method |-> JAbsent,
     params |-> [type |-> "absent", name |-> JAbsent], skill_id |-> JAbsent,
     success |-> JAbsent, transaction |-> JAbsent, payer |-> JAbsent,
     network |-> JAbsent,
     payload |-> [type |-> "absent", authorization |-> "absent", value |-> JAbsent]]

\* A request body or a header value: None or a str; for a str what its text
\* is ("empty", "padding": not decodable as base64, "binary": base64 of bytes
\* that are no text, "invalid": no JSON, "nested": JSON nested deeper than the
\* interpreter's recursion limit, "json": the document doc), and whether it
\* holds characters outside the base64 alphabet besides
NoText == [kind |-> "None", text |-> "empty", junk |-> FALSE, doc |-> NoDoc]

\* The dict extract_x402_payment starts from
NoPayment ==
    [raised |-> None, x402_amount |-> Nothing, x402_tx_hash |-> JNone,
     x402_token |-> JNone, x402_payer |-> JNone]

\* No request observed: the inputs of one call, all unset
NoCall ==
    [callee |-> None, path |-> <<>>, method |-> "GET", chunks |-> <<>>,
     body |-> NoText, x_payment |-> NoText, protocol |-> None,
     log_raises |-> FALSE, tool |-> "",
     app |-> [raises |-> FALSE, exception |-> None, status |-> 200,
              chunks |-> <<>>, x_payment_response |-> NoText,
              reads_body |-> FALSE]]

\* What the caller of a handler gets: the response (status and body size) that
\* was sent, and the exception raised to it
NoOutcome == [sent |-> FALSE, status |-> 0, size |-> 0, raised |-> None]

\* No adapter has run: no call to observe, nothing extracted, nothing logged,
\* no outcome
NoMiddleware ==
    [call |-> [callee |-> None], done |-> FALSE, raised |-> None, tool_name |-> JNone,
     x402 |-> NoPayment, log_calls |-> 0, logged |-> <<>>, outcome |-> NoOutcome]

\* A coroutine's locals.  call, entry, batch, attempt, posts, snaps, path and
\* reached belong to the transport call (add or flush) it is in.
Fresh ==
    [pc |-> "idle", op |-> None, call |-> None, entry |-> 0, batch |-> <<>>,
     attempt |-> 0, timer |-> 0, posts |-> 0, snaps |-> 0, path |-> None,
     reached |-> FALSE, result |-> None, task |-> None, cancel |-> FALSE]

\* The part of the state one run of a coroutine can change.
Cur ==
    [buffer |-> buffer, lock_holder |-> lock_holder, lock_waiters |-> lock_waiters,
     client_open |-> client_open, consecutive_failures |-> consecutive_failures,
     circuit_breaker_until |-> circuit_breaker_until, pr |-> pr,
     delivered |-> delivered]

Becomes(S) ==
    /\ buffer' = S.buffer
    /\ lock_holder' = S.lock_holder
    /\ lock_waiters' = S.lock_waiters
    /\ client_open' = S.client_open
    /\ consecutive_failures' = S.consecutive_failures
    /\ circuit_breaker_until' = S.circuit_breaker_until
    /\ pr' = S.pr
    /\ delivered' = S.delivered

SeqSet(s) == {s[i] : i \in 1..Len(s)}

RemoveFrom(s, x) == SelectSeq(s, LAMBDA y : y # x)

\* ------------------------------------------------------------ the transport

\* time.time() < self.circuit_breaker_until
CircuitOpen(S) == S.circuit_breaker_until > 0

\* Mutant: every sleep of the retry loop lasts one second
BackoffOneSecond(attempt) == 1

\* 2 ** attempt
Backoff(attempt) == 2 ^ attempt

Reverse(s) == [i \in 1..Len(s) |-> s[Len(s) + 1 - i]]

\* Mutant: the failed batch is dropped instead of put back
RequeueDiscards(batch, buf) == buf

\* Mutant: the failed batch is put back in reverse order
RequeueReversed(batch, buf) == Reverse(batch) \o buf

\* batch.entries + self.buffer
Requeue(batch, buf) == batch \o buf

\* Leaving `async with self.lock`: the lock goes to the first waiter, if any.
Release(S) ==
    IF S.lock_waiters = <<>>
    THEN [S EXCEPT !.lock_holder = None]
    ELSE [S EXCEPT !.lock_holder = Head(S.lock_waiters),
                   !.lock_waiters = Tail(S.lock_waiters)]

\* A call of p ends: its locals go, what it returned stays with the caller.
Returned(S, p, result) ==
    [S EXCEPT !.pr[p] = [Fresh EXCEPT !.pc = "returned", !.op = S.pr[p].op,
                                      !.entry = S.pr[p].entry,
                                      !.result = result]]

RECURSIVE Acquire(_, _), CriticalSection(_, _), FlushInternal(_, _),
          Attempt(_, _), Throw(_, _, _), Continue(_, _)

\* Mutant: close() returns after its flush without client.aclose()
ContinueCloseKeepsClient(S, p) ==
    LET op == S.pr[p].op IN
    CASE op \in {"add", "flush", "close"} ->
            [S EXCEPT !.pr[p] = Fresh]
      [] op = "verify_connection" ->
            IF S.pr[p].call = "add"
            THEN Acquire([S EXCEPT !.pr[p].call = "flush", !.pr[p].posts = 0,
                                   !.pr[p].snaps = 0, !.pr[p].path = None,
                                   !.pr[p].reached = FALSE], p)
            ELSE Returned(S, p, "True")
      [] op = "auto_flush" ->
            [S EXCEPT !.pr[p] = [Fresh EXCEPT !.pc = "sleeping", !.op = op,
                                              !.timer = FlushIntervalSeconds]]

\* Mutant: verify_connection() returns after add(), without the flush
ContinueVerifyWithoutFlush(S, p) ==
    LET op == S.pr[p].op IN
    CASE op \in {"add", "flush"} ->
            [S EXCEPT !.pr[p] = Fresh]
      [] op = "verify_connection" ->
            Returned(S, p, "True")
      [] op = "close" ->
            [S EXCEPT !.client_open = FALSE, !.pr[p] = Fresh]
      [] op = "auto_flush" ->
            [S EXCEPT !.pr[p] = [Fresh EXCEPT !.pc = "sleeping", !.op = op,
                                              !.timer = FlushIntervalSeconds]]

\* Mutant: the periodic task flushes again at once, without the sleep
ContinueWithoutSleep(S, p) ==
    LET op == S.pr[p].op IN
    CASE op \in {"add", "flush"} ->
            [S EXCEPT !.pr[p] = Fresh]
      [] op = "verify_connection" ->
            IF S.pr[p].call = "add"
            THEN Acquire([S EXCEPT !.pr[p].call = "flush", !.pr[p].posts = 0,
                                   !.pr[p].snaps = 0, !.pr[p].path = None,
                                   !.pr[p].reached = FALSE], p)
            ELSE Returned(S, p, "True")
      [] op = "close" ->
            [S EXCEPT !.client_open = FALSE, !.pr[p] = Fresh]
      [] op = "auto_flush" ->
            [S EXCEPT !.pr[p] = [Fresh EXCEPT !.pc = "sleeping", !.op = op,
                                              !.timer = 0]]

\* The transport call of p has returned normally (lock released): p goes on
\* with the operation it is in, up to its next suspension.
Continue(S, p) ==
    LET op == S.pr[p].op IN
    CASE op \in {"add", "flush"} ->
            [S EXCEPT !.pr[p] = Fresh]
      [] op = "verify_connection" ->
            IF S.pr[p].call = "add"
            THEN Acquire([S EXCEPT !.pr[p].call = "flush", !.pr[p].posts = 0,
                                   !.pr[p].snaps = 0, !.pr[p].path = None,
                                   !.pr[p].reached = FALSE], p)
            ELSE Returned(S, p, "True")
      [] op = "close" ->
            [S EXCEPT !.client_open = FALSE, !.pr[p] = Fresh]
      [] op = "auto_flush" ->
            [S EXCEPT !.pr[p] = [Fresh EXCEPT !.pc = "sleeping", !.op = op,
                                              !.timer = FlushIntervalSeconds]]

\* exc leaves _flush_internal and the `async with` of add() or flush(), which
\* releases the lock; the batch, a local, goes with it.
Propagate(S, p, exc) ==
    LET op == S.pr[p].op
        S1 == Release(S)
    IN CASE op \in {"add", "flush", "close"} -> Returned(S1, p, "raised")
         [] op = "verify_connection" ->
                IF IsException(exc) THEN Returned(S1, p, "False")
                ELSE Returned(S1, p, "raised")
         [] op = "auto_flush" ->
                [S1 EXCEPT !.pr[p] = [Fresh EXCEPT !.pc = "cancelled", !.op = op]]

\* Mutant: the breaker opens only after the failure threshold is exceeded
ExhaustedOpensLate(S, p) ==
    LET cf == S.consecutive_failures + 1
    IN [S EXCEPT !.consecutive_failures = cf,
                 !.circuit_breaker_until =
                     IF cf > FailureThreshold THEN CircuitBreakerSeconds ELSE @,
                 !.buffer = Requeue(S.pr[p].batch, @),
                 !.pr[p].batch = <<>>]

\* The except clause of the retry loop, attempt 2: all retries failed
Exhausted(S, p) ==
    LET cf == S.consecutive_failures + 1
    IN [S EXCEPT !.consecutive_failures = cf,
                 !.circuit_breaker_until =
                     IF cf >= FailureThreshold THEN CircuitBreakerSeconds ELSE @,
                 !.buffer = Requeue(S.pr[p].batch, @),
                 !.pr[p].batch = <<>>]

\* Mutant: every failed attempt counts as a failure
ThrowCountsEveryAttempt(S, p, exc) ==
    IF ~IsException(exc)
    THEN Propagate(S, p, exc)
    ELSE IF S.pr[p].attempt < MaxAttempts - 1
    THEN [S EXCEPT !.consecutive_failures = @ + 1,
                   !.pr[p].pc = "backoff",
                   !.pr[p].timer = Backoff(S.pr[p].attempt)]
    ELSE Continue(Release(Exhausted(S, p)), p)

\* Mutant: the retry loop makes one pass more
ThrowRetriesOnceMore(S, p, exc) ==
    IF ~IsException(exc)
    THEN Propagate(S, p, exc)
    ELSE IF S.pr[p].attempt < MaxAttempts
    THEN [S EXCEPT !.pr[p].pc = "backoff",
                   !.pr[p].timer = Backoff(S.pr[p].attempt)]
    ELSE Continue(Release(Exhausted(S, p)), p)

\* exc is raised inside the try block of the retry loop
Throw(S, p, exc) ==
    IF ~IsException(exc)
    THEN Propagate(S, p, exc)
    ELSE IF S.pr[p].attempt < MaxAttempts - 1
    THEN [S EXCEPT !.pr[p].pc = "backoff",
                   !.pr[p].timer = Backoff(S.pr[p].attempt)]
    ELSE Continue(Release(Exhausted(S, p)), p)

\* Mutant: a success puts the batch back into the buffer as a failure does
OnSuccessRequeues(S, p) ==
    LET S1 == [S EXCEPT !.consecutive_failures = 0,
                        !.delivered = Append(@, S.pr[p].batch),
                        !.buffer = Requeue(S.pr[p].batch, @),
                        !.pr[p].batch = <<>>]
    IN Continue(Release(S1), p)

\* Mutant: a success leaves consecutive_failures as it was
OnSuccessKeepsCount(S, p) ==
    LET S1 == [S EXCEPT !.delivered = Append(@, S.pr[p].batch),
                        !.pr[p].batch = <<>>]
    IN Continue(Release(S1), p)

\* response.raise_for_status() passed
OnSuccess(S, p) ==
    LET S1 == [S EXCEPT !.consecutive_failures = 0,
                        !.delivered = Append(@, S.pr[p].batch),
                        !.pr[p].batch = <<>>]
    IN Continue(Release(S1), p)

\* Mutant: the POST goes out whether or not the client was closed
AttemptOnClosedClient(S, p) ==
    [S EXCEPT !.pr[p].pc = "posting", !.pr[p].posts = @ + 1]

\* One pass of the retry loop up to the await of client.post.  A client
\* that was closed raises at once, without sending.
Attempt(S, p) ==
    IF S.client_open
    THEN [S EXCEPT !.pr[p].pc = "posting", !.pr[p].posts = @ + 1]
    ELSE Throw(S, p, "RuntimeError")

\* Mutant: _flush_internal copies the buffer without clearing it
FlushInternalKeepsBuffer(S, p) ==
    IF S.buffer = <<>>
    THEN Continue(Release([S EXCEPT !.pr[p].path = "empty"]), p)
    ELSE IF CircuitOpen(S)
    THEN Continue(Release([S EXCEPT !.pr[p].path = "circuit_open"]), p)
    ELSE Attempt([S EXCEPT !.pr[p].batch = S.buffer,
                           !.pr[p].attempt = 0,
                           !.pr[p].snaps = @ + 1,
                           !.pr[p].path = "sent"], p)

\* Mutant: _flush_internal without the circuit breaker check
FlushInternalIgnoresBreaker(S, p) ==
    IF S.buffer = <<>>
    THEN Continue(Release([S EXCEPT !.pr[p].path = "empty"]), p)
    ELSE Attempt([S EXCEPT !.pr[p].batch = S.buffer,
                           !.buffer = <<>>,
                           !.pr[p].attempt = 0,
                           !.pr[p].snaps = @ + 1,
                           !.pr[p].path = "sent"], p)

\* Mutant: _flush_internal without the check for an empty buffer
FlushInternalSendsEmpty(S, p) ==
    IF CircuitOpen(S)
    THEN Continue(Release([S EXCEPT !.pr[p].path = "circuit_open"]), p)
    ELSE Attempt([S EXCEPT !.pr[p].batch = S.buffer,
                           !.buffer = <<>>,
                           !.pr[p].attempt = 0,
                           !.pr[p].snaps = @ + 1,
                           !.pr[p].path = "sent"], p)

\* _flush_internal, up to its first suspension
FlushInternal(S, p) ==
    IF S.buffer = <<>>
    THEN Continue(Release([S EXCEPT !.pr[p].path = "empty"]), p)
    ELSE IF CircuitOpen(S)
    THEN Continue(Release([S EXCEPT !.pr[p].path = "circuit_open"]), p)
    ELSE Attempt([S EXCEPT !.pr[p].batch = S.buffer,
                           !.buffer = <<>>,
                           !.pr[p].attempt = 0,
                           !.pr[p].snaps = @ + 1,
                           !.pr[p].path = "sent"], p)

\* Mutant: add() flushes only once the buffer is longer than batch_size
CriticalSectionOffByOne(S, p) ==
    IF S.pr[p].call = "add"
    THEN LET S1 == [S EXCEPT !.buffer = Append(@, S.pr[p].entry)]
         IN IF Len(S1.buffer) > batch_size
            THEN FlushInternal([S1 EXCEPT !.pr[p].reached = TRUE], p)
            ELSE Continue(Release(S1), p)
    ELSE FlushInternal(S, p)

\* The body of `async with self.lock` in add() and in flush()
CriticalSection(S, p) ==
    IF S.pr[p].call = "add"
    THEN LET S1 == [S EXCEPT !.buffer = Append(@, S.pr[p].entry)]
         IN IF Len(S1.buffer) >= batch_size
            THEN FlushInternal([S1 EXCEPT !.pr[p].reached = TRUE], p)
            ELSE Continue(Release(S1), p)
    ELSE FlushInternal(S, p)

\* Mutant: the critical section is entered without taking the lock
AcquireWithoutLock(S, p) == CriticalSection([S EXCEPT !.lock_holder = p], p)

\* Entering `async with self.lock`: at once when the lock is free, else queued.
Acquire(S, p) ==
    IF S.lock_holder = None
    THEN CriticalSection([S EXCEPT !.lock_holder = p], p)
    ELSE [S EXCEPT !.lock_waiters = Append(@, p), !.pr[p].pc = "wait_lock"]

\* A coroutine that is between two operations
Ready(p) == pr[p].pc \in {"idle", "returned"}

StartCall(p, op, call, entry) ==
    [Cur EXCEPT !.pr[p] = [Fresh EXCEPT !.pc = "running", !.op = op,
                                        !.call = call, !.entry = entry]]

\* What each operation makes of the present state, up to its first suspension
AddBy(p, e) == Acquire(StartCall(p, "add", "add", e), p)

FlushBy(p) == Acquire(StartCall(p, "flush", "flush", 0), p)

VerifyConnectionBy(p, e) == Acquire(StartCall(p, "verify_connection", "add", e), p)

\* Mutant: close() cancels the periodic task and goes on without awaiting it
CloseWithoutAwait(p) ==
    LET S == StartCall(p, "close", "flush", 0) IN
    IF flush_task # None /\ pr[flush_task].pc # "cancelled"
    THEN Acquire([S EXCEPT !.pr[flush_task].cancel = TRUE], p)
    ELSE Acquire(S, p)

CloseBy(p) ==
    LET S == StartCall(p, "close", "flush", 0) IN
    IF flush_task # None /\ pr[flush_task].pc # "cancelled"
    THEN [S EXCEPT !.pr[flush_task].cancel = TRUE,
                   !.pr[p].pc = "await_task",
                   !.pr[p].task = flush_task]
    ELSE Acquire(S, p)

AutoFlushBy(t) ==
    Acquire([Cur EXCEPT !.pr[t] = [Fresh EXCEPT !.pc = "running",
                                                !.op = "auto_flush",
                                                !.call = "flush"]], t)

\* close() goes on after `await self.flush_task`
TaskJoinedBy(p) == Acquire([Cur EXCEPT !.pr[p].pc = "running"], p)

\* Mutant: a cancelled task terminates without leaving `async with self.lock`
CancelledKeepsLock(t) ==
    [Cur EXCEPT !.pr[t] = [Fresh EXCEPT !.pc = "cancelled", !.op = "auto_flush"]]

\* CancelledError is thrown into task t where it is suspended
CancelledBy(t) ==
    IF pr[t].pc \in {"posting", "backoff"}
    THEN Throw(Cur, t, "CancelledError")
    ELSE LET S == [Cur EXCEPT !.pr[t] = [Fresh EXCEPT !.pc = "cancelled",
                                                      !.op = "auto_flush"]]
         IN IF lock_holder = t THEN Release(S)
            ELSE [S EXCEPT !.lock_waiters = RemoveFrom(@, t)]

\* ---------------------------------------------------------------- actions

\* await transport.add(entry), as Logger.log does
Add(p) ==
    /\ Ready(p)
    /\ nextId <= MaxEntries
    /\ Becomes(AddBy(p, nextId))
    /\ nextId' = nextId + 1
    /\ UNCHANGED <<batch_size, flush_task, pings, facade, middleware>>

\* await transport.flush()
Flush(p) ==
    /\ Ready(p)
    /\ Becomes(FlushBy(p))
    /\ UNCHANGED <<batch_size, flush_task, pings, nextId, facade, middleware>>

\* The entry verify_connection() builds (its timestamp left out)
PingEntry ==
    [request_id |-> "startup-ping", method |-> "PING", path |-> "/_sdk/startup",
     status_code |-> 0, response_ms |-> 0, source |-> "sdk_ping"]

\* await logger.verify_connection(): build the ping entry, add it, flush
VerifyConnection(p) ==
    /\ Ready(p)
    /\ nextId <= MaxEntries
    /\ Becomes(VerifyConnectionBy(p, nextId))
    /\ nextId' = nextId + 1
    /\ pings' = pings \cup {nextId}
    /\ UNCHANGED <<batch_size, flush_task, facade, middleware>>

\* transport.start_auto_flush(): a new task, stored in self.flush_task
StartAutoFlush(p) ==
    /\ Ready(p)
    /\ \E i \in 1..Len(TaskOrder) : LET t == TaskOrder[i] IN
        /\ pr[t].pc = "unborn"
        /\ \A j \in 1..(i - 1) : pr[TaskOrder[j]].pc # "unborn"
        /\ flush_task' = t
        /\ pr' = [pr EXCEPT ![t] = [Fresh EXCEPT !.pc = "sleeping",
                                                 !.op = "auto_flush",
                                                 !.timer = FlushIntervalSeconds]]
    /\ UNCHANGED <<batch_size, buffer, lock_holder, lock_waiters, client_open,
                   consecutive_failures, circuit_breaker_until, nextId, pings,
                   delivered, facade, middleware>>

\* auto_flush: asyncio.sleep(self.flush_interval) is over, flush()
AutoFlush(t) ==
    /\ pr[t].pc = "sleeping"
    /\ pr[t].timer = 0
    /\ ~pr[t].cancel
    /\ Becomes(AutoFlushBy(t))
    /\ UNCHANGED <<batch_size, flush_task, pings, nextId, facade, middleware>>

\* A queued coroutine has been given the lock and runs its critical section
LockGranted(p) ==
    /\ pr[p].pc = "wait_lock"
    /\ lock_holder = p
    /\ ~pr[p].cancel
    /\ Becomes(CriticalSection(Cur, p))
    /\ UNCHANGED <<batch_size, flush_task, pings, nextId, facade, middleware>>

\* client.post returns or raises.  A third failure is left out once
\* consecutive_failures is at its cap.
Response(p, outcome) ==
    /\ pr[p].pc = "posting"
    /\ ~pr[p].cancel
    /\ IF outcome = "2xx"
       THEN Becomes(OnSuccess(Cur, p))
       ELSE /\ pr[p].attempt = MaxAttempts - 1 => consecutive_failures < MaxFailures
            /\ Becomes(Throw(Cur, p, Raised(outcome)))
    /\ UNCHANGED <<batch_size, flush_task, pings, nextId, facade, middleware>>

\* asyncio.sleep(2 ** attempt) is over: the next pass of the retry loop
BackoffDone(p) ==
    /\ pr[p].pc = "backoff"
    /\ pr[p].timer = 0
    /\ ~pr[p].cancel
    /\ \/ client_open
       \/ pr[p].attempt + 1 < MaxAttempts - 1
       \/ consecutive_failures < MaxFailures
    /\ Becomes(Attempt([Cur EXCEPT !.pr[p].attempt = @ + 1], p))
    /\ UNCHANGED <<batch_size, flush_task, pings, nextId, facade, middleware>>

\* close(), up to `await self.flush_task`; with no task to wait for, up to
\* the first suspension of its flush()
Close(p) ==
    /\ Ready(p)
    /\ Becomes(CloseBy(p))
    /\ UNCHANGED <<batch_size, flush_task, pings, nextId, facade, middleware>>

\* The cancelled task runs: CancelledError is no Exception, so no handler of
\* _flush_internal catches it; it leaves the `async with` and ends the task.
Cancelled(t) ==
    /\ pr[t].cancel
    /\ pr[t].pc # "cancelled"
    /\ Becomes(CancelledBy(t))
    /\ UNCHANGED <<batch_size, flush_task, pings, nextId, facade, middleware>>

\* close() after `await self.flush_task`: flush(), then client.aclose()
TaskJoined(p) ==
    /\ pr[p].pc = "await_task"
    /\ pr[pr[p].task].pc = "cancelled"
    /\ Becomes(TaskJoinedBy(p))
    /\ UNCHANGED <<batch_size, flush_task, pings, nextId, facade, middleware>>

\* A coroutine the event loop has ready to run
Runnable(p) ==
    \/ pr[p].cancel /\ pr[p].pc # "cancelled"
    \/ pr[p].pc \in {"sleeping", "backoff"} /\ pr[p].timer = 0
    \/ pr[p].pc = "wait_lock" /\ lock_holder = p
    \/ pr[p].pc = "await_task" /\ pr[pr[p].task].pc = "cancelled"

\* Mutant: the end of the circuit-breaker window resets consecutive_failures
TickResetsCount ==
    /\ circuit_breaker_until > 0 \/ \E p \in Procs : pr[p].timer > 0
    /\ \A p \in Procs : ~Runnable(p)
    /\ circuit_breaker_until' =
           IF circuit_breaker_until > 0 THEN circuit_breaker_until - 1 ELSE 0
    /\ consecutive_failures' =
           IF circuit_breaker_until = 1 THEN 0 ELSE consecutive_failures
    /\ pr' = [p \in Procs |->
                 [pr[p] EXCEPT !.timer = IF @ > 0 THEN @ - 1 ELSE 0]]
    /\ UNCHANGED <<batch_size, buffer, lock_holder, lock_waiters, client_open,
                   flush_task, nextId, pings, delivered, facade, middleware>>

\* One second passes.  The event loop runs what is ready before it waits,
\* so the clock moves only when no coroutine is ready.
Tick ==
    /\ circuit_breaker_until > 0 \/ \E p \in Procs : pr[p].timer > 0
    /\ \A p \in Procs : ~Runnable(p)
    /\ circuit_breaker_until' =
           IF circuit_breaker_until > 0 THEN circuit_breaker_until - 1 ELSE 0
    /\ pr' = [p \in Procs |->
                 [pr[p] EXCEPT !.timer = IF @ > 0 THEN @ - 1 ELSE 0]]
    /\ UNCHANGED <<batch_size, buffer, lock_holder, lock_waiters, client_open,
                   flush_task, consecutive_failures, nextId, pings, delivered,
                   facade, middleware>>

\* BatchTransport.__init__, for each batch_size of the bound
Init ==
    /\ batch_size \in 1..MaxBatchSize
    /\ buffer = <<>>
    /\ lock_holder = None
    /\ lock_waiters = <<>>
    /\ client_open = TRUE
    /\ flush_task = None
    /\ consecutive_failures = 0
    /\ circuit_breaker_until = 0
    /\ pr = [p \in Procs |->
                IF p \in Tasks THEN [Fresh EXCEPT !.pc = "unborn"] ELSE Fresh]
    /\ nextId = 1
    /\ pings = {}
    /\ delivered = <<>>
    /\ facade = NoFacade
    /\ middleware = NoMiddleware

Next ==
    \/ \E p \in Callers : Add(p)
    \/ \E p \in Callers : Flush(p)
    \/ \E p \in Callers : VerifyConnection(p)
    \/ \E p \in Callers : StartAutoFlush(p)
    \/ \E p \in Callers : Close(p)
    \/ \E p \in Callers : TaskJoined(p)
    \/ \E t \in Tasks : AutoFlush(t)
    \/ \E t \in Tasks : Cancelled(t)
    \/ \E p \in Procs : LockGranted(p)
    \/ \E p \in Procs, o \in Outcomes : Response(p, o)
    \/ \E p \in Procs : BackoffDone(p)
    \/ Tick

Spec == Init /\ [][Next]_vars

\* The event loop runs every coroutine that is ready (the lock handed to it,
\* its sleep over, the task it awaits terminated, a cancellation pending),
\* time passes, and every POST is answered or fails: httpx.AsyncClient is
\* built with timeout=10.0.
Fairness ==
    /\ \A p \in Procs : WF_vars(LockGranted(p))
    /\ \A p \in Procs : WF_vars(\E outcome \in Outcomes : Response(p, outcome))
    /\ \A p \in Procs : WF_vars(BackoffDone(p))
    /\ \A t \in Tasks : WF_vars(AutoFlush(t))
    /\ \A t \in Tasks : WF_vars(Cancelled(t))
    /\ \A p \in Callers : WF_vars(TaskJoined(p))
    /\ WF_vars(Tick)

\* The program with add(), flush(), start_auto_flush() and close() as the
\* calls made, under the fair event loop
NextCalls ==
    \/ \E p \in Callers : Add(p)
    \/ \E p \in Callers : Flush(p)
    \/ \E p \in Callers : StartAutoFlush(p)
    \/ \E p \in Callers : Close(p)
    \/ \E p \in Callers : TaskJoined(p)
    \/ \E t \in Tasks : AutoFlush(t)
    \/ \E t \in Tasks : Cancelled(t)
    \/ \E p \in Procs : LockGranted(p)
    \/ \E p \in Procs, outcome \in Outcomes : Response(p, outcome)
    \/ \E p \in Procs : BackoffDone(p)
    \/ Tick

SpecCalls == Init /\ [][NextCalls]_vars /\ Fairness

\* The program against an ingest endpoint that answers 2xx to every POST
NextAllAccepted ==
    \/ \E p \in Callers : Add(p)
    \/ \E p \in Callers : Flush(p)
    \/ \E p \in Callers : VerifyConnection(p)
    \/ \E p \in Callers : StartAutoFlush(p)
    \/ \E p \in Callers : Close(p)
    \/ \E p \in Callers : TaskJoined(p)
    \/ \E t \in Tasks : AutoFlush(t)
    \/ \E t \in Tasks : Cancelled(t)
    \/ \E p \in Procs : LockGranted(p)
    \/ \E p \in Procs : Response(p, "2xx")
    \/ \E p \in Procs : BackoffDone(p)
    \/ Tick

SpecAllAccepted == Init /\ [][NextAllAccepted]_vars

\* --------------------------------------------------------------- the facade

\* GT8004Logger.VALID_PROTOCOLS, GT8004Logger._INGEST_URLS
VALID_PROTOCOLS == {"mcp", "a2a"}

INGEST_URLS ==
    [network \in {"mainnet", "testnet"} |->
        IF network = "mainnet" THEN "https://ingest.gt8004.xyz/v1/ingest"
        ELSE "https://testnet.ingest.gt8004.xyz/v1/ingest"]

\* The arguments GT8004Logger(...) is called with
NetworkArgs == {Omitted, "mainnet", "testnet", "devnet", ""}
IngestUrlArgs == {Omitted, None, "http://localhost:9092/v1/ingest", ""}
ProtocolArgs == {Omitted, None, "mcp", "a2a", "http", ""}

ConstructorArgs ==
    [network : NetworkArgs, ingest_url : IngestUrlArgs, protocol : ProtocolArgs]

\* The defaults of __init__'s signature
Default(arg, default) == IF arg = Omitted THEN default ELSE arg

ValueError(allowed) ==
    [called |-> TRUE, raised |-> "ValueError", allowed |-> allowed,
     protocol |-> None, transport |-> NoTransport]

\* BatchTransport(ingest_url=ingest_url, ...)
BatchTransport(ingest_url) == [created |-> TRUE, ingest_url |-> ingest_url]

\* Mutant: __init__ without the protocol check
GT8004LoggerAnyProtocol(args) ==
    LET network == Default(args.network, "mainnet")
        given_url == Default(args.ingest_url, None)
        protocol == Default(args.protocol, None)
    IN IF network \notin DOMAIN INGEST_URLS
       THEN ValueError(DOMAIN INGEST_URLS)
       ELSE [called |-> TRUE, raised |-> None, allowed |-> {},
             protocol |-> protocol,
             transport |-> BatchTransport(IF given_url = None
                                          THEN INGEST_URLS[network]
                                          ELSE given_url)]

\* Mutant: `if not ingest_url` in place of `if ingest_url is None`
GT8004LoggerFalsyUrl(args) ==
    LET network == Default(args.network, "mainnet")
        given_url == Default(args.ingest_url, None)
        protocol == Default(args.protocol, None)
    IN IF network \notin DOMAIN INGEST_URLS
       THEN ValueError(DOMAIN INGEST_URLS)
       ELSE IF protocol # None /\ protocol \notin VALID_PROTOCOLS
       THEN ValueError(VALID_PROTOCOLS)
       ELSE [called |-> TRUE, raised |-> None, allowed |-> {},
             protocol |-> protocol,
             transport |-> BatchTransport(IF given_url \in {None, ""}
                                          THEN INGEST_URLS[network]
                                          ELSE given_url)]

\* GT8004Logger.__init__: the logger it leaves, or the error it raises
GT8004Logger(args) ==
    LET network == Default(args.network, "mainnet")
        given_url == Default(args.ingest_url, None)
        protocol == Default(args.protocol, None)
    IN IF network \notin DOMAIN INGEST_URLS
       THEN ValueError(DOMAIN INGEST_URLS)
       ELSE IF protocol # None /\ protocol \notin VALID_PROTOCOLS
       THEN ValueError(VALID_PROTOCOLS)
       ELSE [called |-> TRUE, raised |-> None, allowed |-> {},
             protocol |-> protocol,
             transport |-> BatchTransport(IF given_url = None
                                          THEN INGEST_URLS[network]
                                          ELSE given_url)]

\* Field(None, pattern=r"^(mcp|a2a)$"): the protocols RequestLogEntry(...)
\* accepts
EntryProtocols == {v \in ProtocolArgs \ {Omitted} : v = None \/ v \in {"mcp", "a2a"}}

\* `not entry.protocol`
Falsy(v) == v \in {None, ""}

\* Mutant: log() sets the protocol whatever the entry holds
LogProtocolOverwrites(logger, given) == logger.protocol

\* The protocol log() leaves in the entry
LogProtocol(logger, given) == IF Falsy(given) THEN logger.protocol ELSE given

\* GT8004Logger(**args)
Construct ==
    /\ ~facade.logger.called
    /\ facade' = [facade EXCEPT !.logger = GT8004Logger(facade.args)]
    /\ UNCHANGED <<batch_size, buffer, lock_holder, lock_waiters, client_open,
                   flush_task, consecutive_failures, circuit_breaker_until, pr,
                   nextId, pings, delivered, middleware>>

\* await logger.log(entry), the entry built with protocol = given
Log(p, given) ==
    /\ facade.logger.called
    /\ facade.logger.raised = None
    /\ Ready(p)
    /\ nextId <= MaxEntries
    /\ facade' = [facade EXCEPT
                     !.given = Append(@, given),
                     !.protocol = Append(@, LogProtocol(facade.logger, given))]
    /\ Becomes(AddBy(p, nextId))
    /\ nextId' = nextId + 1
    /\ UNCHANGED <<batch_size, flush_task, pings, middleware>>

\* Before GT8004Logger(...) is called, for each choice of arguments; the
\* transport's fields hold what BatchTransport.__init__ will give them
InitFacade ==
    /\ \E args \in ConstructorArgs : facade = [NoFacade EXCEPT !.args = args]
    /\ batch_size \in 1..MaxBatchSize
    /\ buffer = <<>>
    /\ lock_holder = None
    /\ lock_waiters = <<>>
    /\ client_open = TRUE
    /\ flush_task = None
    /\ consecutive_failures = 0
    /\ circuit_breaker_until = 0
    /\ pr = [p \in Procs |->
                IF p \in Tasks THEN [Fresh EXCEPT !.pc = "unborn"] ELSE Fresh]
    /\ nextId = 1
    /\ pings = {}
    /\ delivered = <<>>
    /\ middleware = NoMiddleware

NextFacade ==
    \/ Construct
    \/ \E p \in Callers, given \in EntryProtocols : Log(p, given)
    \/ \E p \in Procs, o \in Outcomes : Response(p, o)
    \/ \E p \in Procs : BackoffDone(p)
    \/ Tick

SpecFacade == InitFacade /\ [][NextFacade]_vars

\* ------------------------------------------------------------ the wire form
\* Names are sequences of characters, so that _to_camel is what it does.

\* The fields of RequestLogEntry and of LogBatch, as declared
RequestLogEntryFields == {
    <<"r", "e", "q", "u", "e", "s", "t", "_", "i", "d">>,
    <<"m", "e", "t", "h", "o", "d">>,
    <<"p", "a", "t", "h">>,
    <<"s", "t", "a", "t", "u", "s", "_", "c", "o", "d", "e">>,
    <<"r", "e", "s", "p", "o", "n", "s", "e", "_", "m", "s">>,
    <<"c", "u", "s", "t", "o", "m", "e", "r", "_", "i", "d">>,
    <<"t", "o", "o", "l", "_", "n", "a", "m", "e">>,
    <<"e", "r", "r", "o", "r", "_", "t", "y", "p", "e">>,
    <<"x", "4", "0", "2", "_", "a", "m", "o", "u", "n", "t">>,
    <<"x", "4", "0", "2", "_", "t", "x", "_", "h", "a", "s", "h">>,
    <<"x", "4", "0", "2", "_", "t", "o", "k", "e", "n">>,
    <<"x", "4", "0", "2", "_", "p", "a", "y", "e", "r">>,
    <<"r", "e", "q", "u", "e", "s", "t", "_", "b", "o", "d", "y">>,
    <<"r", "e", "s", "p", "o", "n", "s", "e", "_", "b", "o", "d", "y">>,
    <<"r", "e", "q", "u", "e", "s", "t", "_", "b", "o", "d", "y", "_", "s", "i", "z", "e">>,
    <<"r", "e", "s", "p", "o", "n", "s", "e", "_", "b", "o", "d", "y", "_", "s", "i", "z", "e">>,
    <<"h", "e", "a", "d", "e", "r", "s">>,
    <<"i", "p", "_", "a", "d", "d", "r", "e", "s", "s">>,
    <<"u", "s", "e", "r", "_", "a", "g", "e", "n", "t">>,
    <<"r", "e", "f", "e", "r", "e", "r">>,
    <<"c", "o", "n", "t", "e", "n", "t", "_", "t", "y", "p", "e">>,
    <<"a", "c", "c", "e", "p", "t", "_", "l", "a", "n", "g", "u", "a", "g", "e">>,
    <<"p", "r", "o", "t", "o", "c", "o", "l">>,
    <<"s", "o", "u", "r", "c", "e">>,
    <<"t", "i", "m", "e", "s", "t", "a", "m", "p">>
}

LogBatchFields == {<<"a", "g", "e", "n", "t", "_", "i", "d">>,
                   <<"s", "d", "k", "_", "v", "e", "r", "s", "i", "o", "n">>,
                   <<"e", "n", "t", "r", "i", "e", "s">>}

\* The fields declared Optional[...] = None
OptionalFields == RequestLogEntryFields \ {
    <<"r", "e", "q", "u", "e", "s", "t", "_", "i", "d">>, <<"m", "e", "t", "h", "o", "d">>,
    <<"p", "a", "t", "h">>,
    <<"s", "t", "a", "t", "u", "s", "_", "c", "o", "d", "e">>,
    <<"r", "e", "s", "p", "o", "n", "s", "e", "_", "m", "s">>,
    <<"s", "o", "u", "r", "c", "e">>,
    <<"t", "i", "m", "e", "s", "t", "a", "m", "p">>}

\* The X-402 payment fields and the body fields
PaymentBodyFields == {
    <<"x", "4", "0", "2", "_", "a", "m", "o", "u", "n", "t">>,
    <<"x", "4", "0", "2", "_", "t", "x", "_", "h", "a", "s", "h">>,
    <<"x", "4", "0", "2", "_", "t", "o", "k", "e", "n">>,
    <<"x", "4", "0", "2", "_", "p", "a", "y", "e", "r">>,
    <<"r", "e", "q", "u", "e", "s", "t", "_", "b", "o", "d", "y">>,
    <<"r", "e", "s", "p", "o", "n", "s", "e", "_", "b", "o", "d", "y">>,
    <<"r", "e", "q", "u", "e", "s", "t", "_", "b", "o", "d", "y", "_", "s", "i", "z", "e">>,
    <<"r", "e", "s", "p", "o", "n", "s", "e", "_", "b", "o", "d", "y", "_", "s", "i", "z", "e">>
}

AsciiLowercase ==
    <<"a", "b", "c", "d", "e", "f", "g", "h", "i", "j", "k", "l", "m", "n", "o", "p", "q", "r", "s", "t", "u", "v", "w", "x", "y", "z">>
AsciiUppercase ==
    <<"A", "B", "C", "D", "E", "F", "G", "H", "I", "J", "K", "L", "M", "N", "O", "P", "Q", "R", "S", "T", "U", "V", "W", "X", "Y", "Z">>

IndexOf(c, s) == CHOOSE i \in 1..Len(s) : s[i] = c

\* str.upper, str.lower on one character
upper(c) ==
    IF c \in SeqSet(AsciiLowercase) THEN AsciiUppercase[IndexOf(c, AsciiLowercase)] ELSE c

lower(c) ==
    IF c \in SeqSet(AsciiUppercase) THEN AsciiLowercase[IndexOf(c, AsciiUppercase)] ELSE c

\* str.capitalize
capitalize(p) == [i \in 1..Len(p) |-> IF i = 1 THEN upper(p[i]) ELSE lower(p[i])]

\* name.split("_")
RECURSIVE split(_)
split(name) ==
    IF "_" \notin SeqSet(name)
    THEN <<name>>
    ELSE LET i == CHOOSE i \in 1..Len(name) :
                      name[i] = "_" /\ \A j \in 1..(i - 1) : name[j] # "_"
         IN <<SubSeq(name, 1, i - 1)>> \o split(SubSeq(name, i + 1, Len(name)))

\* "".join
RECURSIVE join(_)
join(parts) == IF parts = <<>> THEN <<>> ELSE Head(parts) \o join(Tail(parts))

\* Mutant: every part is capitalized, the first one too
to_pascal(name) ==
    LET parts == split(name)
    IN join([i \in 1..Len(parts) |-> capitalize(parts[i])])

\* _to_camel
to_camel(name) ==
    LET parts == split(name)
    IN parts[1] \o join([i \in 1..(Len(parts) - 1) |-> capitalize(parts[i + 1])])

\* What a field can hold: None, a value that is falsy (0, 0.0, ""), any other
FieldValues == {None, "falsy", "truthy"}

\* model_dump(by_alias=True, exclude_none=True) of one model: its keys with
\* their values
model_dump(model) ==
    {<<to_camel(f), model[f]>> : f \in {g \in DOMAIN model : model[g] # None}}

\* The entries RequestLogEntry(...) is built as: each payment or body field
\* with each kind of value, the other optional fields all unset or all set,
\* status_code 0 as in the startup ping
RequestLogEntries ==
    {[f \in RequestLogEntryFields |->
        IF f \in PaymentBodyFields THEN pb[f]
        ELSE IF f \in OptionalFields THEN other
        ELSE IF f = <<"s", "t", "a", "t", "u", "s", "_", "c", "o", "d", "e">> THEN "falsy"
        ELSE "truthy"] :
     pb \in [PaymentBodyFields -> FieldValues], other \in {None, "truthy"}}

\* batch.model_dump(by_alias=True, exclude_none=True) for a batch of the one
\* entry: the keys of the batch object and the entry object
ModelDump ==
    /\ ~facade.dumped
    /\ facade' = [facade EXCEPT
                     !.dumped = TRUE,
                     !.wire = model_dump(facade.entry),
                     !.batch_wire = {to_camel(f) : f \in LogBatchFields}]
    /\ UNCHANGED <<batch_size, buffer, lock_holder, lock_waiters, client_open,
                   flush_task, consecutive_failures, circuit_breaker_until, pr,
                   nextId, pings, delivered, middleware>>

\* An entry has been built and is about to be sent
InitWire ==
    /\ \E entry \in RequestLogEntries : facade = [NoFacade EXCEPT !.entry = entry]
    /\ batch_size \in 1..MaxBatchSize
    /\ buffer = <<>>
    /\ lock_holder = None
    /\ lock_waiters = <<>>
    /\ client_open = TRUE
    /\ flush_task = None
    /\ consecutive_failures = 0
    /\ circuit_breaker_until = 0
    /\ pr = [p \in Procs |->
                IF p \in Tasks THEN [Fresh EXCEPT !.pc = "unborn"] ELSE Fresh]
    /\ nextId = 1
    /\ pings = {}
    /\ delivered = <<>>
    /\ middleware = NoMiddleware

NextWire == ModelDump

SpecWire == InitWire /\ [][NextWire]_vars

\* ---------------------------------------------------------- the extraction

\* BODY_LIMIT = 16384
BODY_LIMIT == 16384

\* USDC has 6 decimals: the divisor of int(value) / 1_000_000
USDC_UNITS == 1000000

\* How a function call ends: it returns value, or raises
Return(value) == [raised |-> None, value |-> value]
Raise(exception) == [raised |-> exception, value |-> JNone]

\* Truth value of an object: `if x`
Truthy(j) ==
    CASE j.type = "str" -> j.s # ""
      [] j.type \in {"int", "bool"} -> j.n # 0
      [] j.type \in {"dict", "list"} -> TRUE
      [] OTHER -> FALSE

\* `if body`, `if payment_request`: neither None nor ""
TruthyText(t) == t.kind = "str" /\ t.text # "empty"

\* dict.get(key): None for a key the dict lacks
Get(j) == IF j = JAbsent THEN JNone ELSE j

\* json.loads on a str or on decoded bytes
json_loads(t) ==
    CASE t.text = "json" -> [raised |-> None, doc |-> t.doc]
      [] t.text = "nested" -> [raised |-> "RecursionError", doc |-> NoDoc]
      [] t.text = "binary" -> [raised |-> "UnicodeDecodeError", doc |-> NoDoc]
      [] OTHER -> [raised |-> "JSONDecodeError", doc |-> NoDoc]

\* The exceptions the tool-name extractors catch
ToolNameCaught == {"JSONDecodeError", "TypeError", "AttributeError"}

extract_mcp_tool_name(body) ==
    IF ~TruthyText(body) THEN Return(JNone)
    ELSE LET data == json_loads(body)
         IN IF data.raised # None
            THEN IF data.raised \in ToolNameCaught THEN Return(JNone)
                 ELSE Raise(data.raised)
            ELSE IF data.doc.type # "dict" THEN Return(JNone)
            ELSE IF data.doc.method # JStr("tools/call") THEN Return(JNone)
            ELSE IF data.doc.params.type \notin {"absent", "dict"} THEN Return(JNone)
            ELSE Return(Get(data.doc.params.name))

\* path.rstrip("/"); a path is the sequence of its "/" and its segments
RECURSIVE rstrip(_)
rstrip(path) ==
    IF path # <<>> /\ path[Len(path)] = "/"
    THEN rstrip(SubSeq(path, 1, Len(path) - 1))
    ELSE path

\* segments[-1] of path.split("/"): what follows the last "/"
LastSegment(path) ==
    IF path = <<>> \/ path[Len(path)] = "/" THEN "" ELSE path[Len(path)]

extract_http_tool_name(path) == Return(JStr(LastSegment(rstrip(path))))

extract_a2a_tool_name(body, path) ==
    LET fallback == Return(JStr(LastSegment(rstrip(path))))
    IN IF ~TruthyText(body) THEN fallback
       ELSE LET data == json_loads(body)
            IN IF data.raised # None
               THEN IF data.raised \in ToolNameCaught THEN fallback
                    ELSE Raise(data.raised)
               ELSE IF data.doc.type # "dict" THEN fallback
               ELSE IF Truthy(Get(data.doc.skill_id)) THEN Return(data.doc.skill_id)
               ELSE fallback

extract_tool_name(protocol, body, path) ==
    IF protocol = "mcp" THEN extract_mcp_tool_name(body)
    ELSE IF protocol = "a2a" THEN extract_a2a_tool_name(body, path)
    ELSE extract_http_tool_name(path)

\* base64.b64decode: characters outside the alphabet are discarded, wrong
\* padding raises binascii.Error
b64decode(t) ==
    IF t.text = "padding" THEN [raised |-> "binascii.Error", text |-> NoText]
    ELSE [raised |-> None, text |-> [t EXCEPT !.junk = FALSE]]

\* str(x)
str(j) ==
    CASE j.type = "str" -> j
      [] j.type = "int" -> JStr(ToString(j.n))
      [] j.type = "bool" -> JStr(IF j.n = 1 THEN "True" ELSE "False")
      [] OTHER -> JStr(j.type)

\* The decimal strings whose int() the model knows
Decimals == {0, 750000}

\* int(x)
int(j) ==
    CASE j.type \in {"int", "bool"} -> [raised |-> None, n |-> j.n]
      [] j.type = "str" ->
            IF \E n \in Decimals : ToString(n) = j.s
            THEN [raised |-> None, n |-> CHOOSE n \in Decimals : ToString(n) = j.s]
            ELSE [raised |-> "ValueError", n |-> 0]
      [] OTHER -> [raised |-> "TypeError", n |-> 0]

\* Mutant: only the exceptions the except clause lists by name, and their
\* subclasses, are caught
IsPaymentCaughtByName(exception) ==
    exception \in {"JSONDecodeError", "TypeError", "ValueError", "binascii.Error",
                   "UnicodeDecodeError"}

\* The exceptions extract_x402_payment catches: every Exception
IsPaymentCaught(exception) == TRUE

\* json.loads(base64.b64decode(header)) and the reads of the response object
SettlementOf(payment_response, result) ==
    IF ~TruthyText(payment_response) THEN result
    ELSE LET decoded == b64decode(payment_response)
             resp == json_loads(decoded.text)
             failed == IF decoded.raised # None THEN decoded.raised
                       ELSE IF resp.raised # None THEN resp.raised
                       ELSE IF resp.doc.type # "dict" THEN "AttributeError"
                       ELSE None
         IN IF failed # None
            THEN IF IsPaymentCaught(failed) THEN result
                 ELSE [result EXCEPT !.raised = failed]
            ELSE IF ~Truthy(Get(resp.doc.success)) THEN result
            ELSE [result EXCEPT
                    !.x402_tx_hash = IF Truthy(Get(resp.doc.transaction))
                                     THEN str(resp.doc.transaction) ELSE @,
                    !.x402_payer = IF Truthy(Get(resp.doc.payer))
                                   THEN str(resp.doc.payer) ELSE @,
                    !.x402_token = IF Truthy(Get(resp.doc.network))
                                   THEN JStr("USDC-" \o str(resp.doc.network).s)
                                   ELSE @]

\* Mutant: the amount is set only for a truthy value, `if value:`
AmountOfTruthyValue(payment_request, result) ==
    IF ~TruthyText(payment_request) THEN result
    ELSE LET decoded == b64decode(payment_request)
             req == json_loads(decoded.text)
             payload == req.doc.payload
             value == IF payload.type = "absent" \/ payload.authorization = "absent"
                      THEN JNone
                      ELSE Get(payload.value)
             failed == IF decoded.raised # None THEN decoded.raised
                       ELSE IF req.raised # None THEN req.raised
                       ELSE IF req.doc.type # "dict" THEN "AttributeError"
                       ELSE IF payload.type \notin {"absent", "dict"}
                            THEN "AttributeError"
                       ELSE IF payload.type = "dict"
                               /\ payload.authorization \notin {"absent", "dict"}
                            THEN "AttributeError"
                       ELSE IF Truthy(value) THEN int(value).raised
                       ELSE None
         IN IF failed # None
            THEN IF IsPaymentCaught(failed) THEN result
                 ELSE [result EXCEPT !.raised = failed]
            ELSE IF ~Truthy(value) THEN result
            ELSE [result EXCEPT
                    !.x402_amount = [none |-> FALSE, num |-> int(value).n,
                                     den |-> USDC_UNITS]]

\* json.loads(base64.b64decode(header)) and the reads of the request object
AmountOf(payment_request, result) ==
    IF ~TruthyText(payment_request) THEN result
    ELSE LET decoded == b64decode(payment_request)
             req == json_loads(decoded.text)
             payload == req.doc.payload
             value == IF payload.type = "absent" \/ payload.authorization = "absent"
                      THEN JNone
                      ELSE Get(payload.value)
             failed == IF decoded.raised # None THEN decoded.raised
                       ELSE IF req.raised # None THEN req.raised
                       ELSE IF req.doc.type # "dict" THEN "AttributeError"
                       ELSE IF payload.type \notin {"absent", "dict"}
                            THEN "AttributeError"
                       ELSE IF payload.type = "dict"
                               /\ payload.authorization \notin {"absent", "dict"}
                            THEN "AttributeError"
                       ELSE IF value # JNone THEN int(value).raised
                       ELSE None
         IN IF failed # None
            THEN IF IsPaymentCaught(failed) THEN result
                 ELSE [result EXCEPT !.raised = failed]
            ELSE IF value = JNone THEN result
            ELSE [result EXCEPT
                    !.x402_amount = [none |-> FALSE, num |-> int(value).n,
                                     den |-> USDC_UNITS]]

extract_x402_payment(payment_request, payment_response) ==
    LET settled == SettlementOf(payment_response, NoPayment)
    IN IF settled.raised # None THEN settled
       ELSE AmountOf(payment_request, settled)

\* A str with the given text
Text(text) == [NoText EXCEPT !.kind = "str", !.text = text]

\* A str holding a JSON document
Json(doc) == [NoText EXCEPT !.kind = "str", !.text = "json", !.doc = doc]

\* The request bodies extract_tool_name is given: None, "", text that is no
\* JSON, JSON nested too deep, JSON that is no object, and objects with each
\* method, params and skill_id
ToolBodies ==
    {NoText, Text("empty"), Text("invalid"), Text("nested")}
    \cup {Json([NoDoc EXCEPT !.type = t]) : t \in {"list", "null", "int", "str"}}
    \cup {Json([NoDoc EXCEPT !.type = "dict", !.method = m, !.params = p,
                             !.skill_id = s]) :
            m \in {JAbsent, JStr("tools/call"), JStr("resources/list")},
            p \in {[type |-> "absent", name |-> JAbsent],
                   [type |-> "null", name |-> JAbsent],
                   [type |-> "list", name |-> JAbsent],
                   [type |-> "dict", name |-> JAbsent],
                   [type |-> "dict", name |-> JStr("search")],
                   [type |-> "dict", name |-> JInt(5)]},
            s \in {JAbsent, JNone, JStr(""), JStr("translate"), JInt(5)}}

ToolProtocols == {None, "mcp", "a2a", "other"}

ToolPaths ==
    {<<>>, <<"/">>, <<"/", "api", "/", "search">>,
     <<"/", "a2a", "/", "tasks", "/", "send", "/">>,
     <<"/", "a2a", "/", "/", "run", "/", "/">>}

\* The X-Payment values: absent, empty, not base64, base64 of no JSON, JSON
\* of the wrong shape, and payloads with each kind of value, each also with
\* characters outside the base64 alphabet
PaymentRequestDocs ==
    {[NoDoc EXCEPT !.type = "list"], [NoDoc EXCEPT !.type = "dict"]}
    \cup {[NoDoc EXCEPT !.type = "dict",
                        !.payload = [type |-> t, authorization |-> "absent",
                                     value |-> JAbsent]] :
            t \in {"null", "str", "dict"}}
    \cup {[NoDoc EXCEPT !.type = "dict",
                        !.payload = [type |-> "dict", authorization |-> "null",
                                     value |-> JAbsent]]}
    \cup {[NoDoc EXCEPT !.type = "dict",
                        !.payload = [type |-> "dict", authorization |-> "dict",
                                     value |-> v]] :
            v \in {JAbsent, JNone, JInt(750000), JInt(0), JStr("750000"),
                   JStr("abc"), JDict, JBool(TRUE)}}

Headers(docs) ==
    {NoText} \cup {Text(t) : t \in {"empty", "padding", "binary", "invalid", "nested"}}
    \cup {[Json(doc) EXCEPT !.junk = junk] : doc \in docs, junk \in BOOLEAN}

PaymentRequests == Headers(PaymentRequestDocs)

\* The X-Payment-Response values, likewise
PaymentResponseDocs ==
    {[NoDoc EXCEPT !.type = "list"]}
    \cup {[NoDoc EXCEPT !.type = "dict", !.success = s, !.transaction = t,
                        !.payer = p, !.network = n] :
            s \in {JAbsent, JBool(FALSE), JBool(TRUE)},
            t \in {JAbsent, JStr("0xabc123"), JInt(5)},
            p \in {JAbsent, JStr("0xdef456")},
            n \in {JAbsent, JStr("base-mainnet")}}

PaymentResponses == Headers(PaymentResponseDocs)

\* The calls of the two extraction functions
ExtractCalls ==
    {[NoCall EXCEPT !.callee = "extract_tool_name", !.protocol = protocol,
                    !.body = body, !.path = path] :
        protocol \in ToolProtocols, body \in ToolBodies, path \in ToolPaths}
    \cup {[NoCall EXCEPT !.callee = "extract_x402_payment", !.x_payment = req,
                         !.app.x_payment_response = resp] :
            req \in PaymentRequests, resp \in PaymentResponses}

\* extract_tool_name(protocol, body, path)
ExtractToolName ==
    /\ middleware.call.callee = "extract_tool_name"
    /\ ~middleware.done
    /\ LET r == extract_tool_name(middleware.call.protocol, middleware.call.body,
                                  middleware.call.path)
       IN middleware' = [middleware EXCEPT !.done = TRUE, !.raised = r.raised,
                                           !.tool_name = r.value]
    /\ UNCHANGED <<batch_size, buffer, lock_holder, lock_waiters, client_open,
                   flush_task, consecutive_failures, circuit_breaker_until, pr,
                   nextId, pings, delivered, facade>>

\* extract_x402_payment(payment_request, payment_response)
ExtractX402Payment ==
    /\ middleware.call.callee = "extract_x402_payment"
    /\ ~middleware.done
    /\ LET r == extract_x402_payment(middleware.call.x_payment,
                                     middleware.call.app.x_payment_response)
       IN middleware' = [middleware EXCEPT !.done = TRUE, !.raised = r.raised,
                                           !.x402 = r]
    /\ UNCHANGED <<batch_size, buffer, lock_holder, lock_waiters, client_open,
                   flush_task, consecutive_failures, circuit_breaker_until, pr,
                   nextId, pings, delivered, facade>>

\* A call of an extraction function is about to be made, for each choice of
\* its arguments
InitExtract ==
    /\ \E call \in ExtractCalls : middleware = [NoMiddleware EXCEPT !.call = call]
    /\ batch_size \in 1..MaxBatchSize
    /\ buffer = <<>>
    /\ lock_holder = None
    /\ lock_waiters = <<>>
    /\ client_open = TRUE
    /\ flush_task = None
    /\ consecutive_failures = 0
    /\ circuit_breaker_until = 0
    /\ pr = [p \in Procs |->
                IF p \in Tasks THEN [Fresh EXCEPT !.pc = "unborn"] ELSE Fresh]
    /\ nextId = 1
    /\ pings = {}
    /\ delivered = <<>>
    /\ facade = NoFacade

NextExtract ==
    \/ ExtractToolName
    \/ ExtractX402Payment

SpecExtract == InitExtract /\ [][NextExtract]_vars

\* ------------------------------------------------------------ the adapters

\* fastapi._DEFAULT_EXCLUDE_PATHS, asgi._DEFAULT_EXCLUDE_PATHS
FastAPIExcludePaths ==
    {<<"/", ".well-known", "/", "agent.json">>,
     <<"/", ".well-known", "/", "agent.json", "/", "health">>,
     <<"/", "healthz">>, <<"/", "readyz">>, <<"/", "health">>, <<"/", "_health">>}

ASGIExcludePaths ==
    {<<"/", "health">>, <<"/", "healthz">>, <<"/", "readyz">>, <<"/", "_health">>}

\* len(b"".join(chunks))
RECURSIVE Sum(_)
Sum(chunks) == IF chunks = <<>> THEN 0 ELSE Head(chunks) + Sum(Tail(chunks))

Min(a, b) == IF a < b THEN a ELSE b

\* The length of the bytearray after receive_wrapper / send_wrapper has seen
\* the chunks: each chunk is cut to what is left of BODY_LIMIT
RECURSIVE Capture(_, _)
Capture(chunks, captured) ==
    IF chunks = <<>> THEN captured
    ELSE Capture(Tail(chunks),
                 IF captured < BODY_LIMIT
                 THEN captured + Min(Head(chunks), BODY_LIMIT - captured)
                 ELSE captured)

\* bytes.decode("utf-8", errors="ignore") of the first `captured` bytes of a
\* body of `size` bytes: a JSON text that is cut is no JSON any more
Decode(body, captured, size) ==
    IF captured = 0 THEN Text("empty")
    ELSE IF captured < size /\ body.text \in {"json", "nested"} THEN Text("invalid")
    ELSE body

\* What the wrapped application does on its own: the response it gives or
\* the exception it raises
AppOutcome(call) ==
    IF call.app.raises
    THEN [sent |-> FALSE, status |-> 0, size |-> 0, raised |-> call.app.exception]
    ELSE [sent |-> TRUE, status |-> call.app.status, size |-> Sum(call.app.chunks),
          raised |-> None]

\* An exception leaves the adapter in place of the response
Raises(exception) == [sent |-> FALSE, status |-> 0, size |-> 0, raised |-> exception]

\* extract_x402_payment(*args): both parameters are required and have no
\* default
Call_extract_x402_payment(args) ==
    IF Len(args) # 2 THEN [NoPayment EXCEPT !.raised = "TypeError"]
    ELSE extract_x402_payment(args[1], args[2])

\* RequestLogEntry(**fields): tool_name must be a str or None, protocol must
\* match ^(mcp|a2a)$ or be None
RequestLogEntry(fields) ==
    IF fields.tool_name.type \notin {"null", "str"}
       \/ fields.protocol \notin {None, "mcp", "a2a"}
    THEN [raised |-> "ValidationError", entry |-> fields]
    ELSE [raised |-> None, entry |-> fields]

\* The keyword arguments the adapters build an entry from
EntryFields(method, path, status_code, tool_name, protocol, request_body, request_body_size, response_body, response_body_size, x402, error_type) ==
    [method |-> method, path |-> path, status_code |-> status_code,
     tool_name |-> tool_name, protocol |-> protocol,
     request_body |-> request_body, request_body_size |-> request_body_size,
     response_body |-> response_body, response_body_size |-> response_body_size,
     x402_amount |-> x402.x402_amount, x402_tx_hash |-> x402.x402_tx_hash,
     x402_token |-> x402.x402_token, x402_payer |-> x402.x402_payer,
     error_type |-> error_type]

\* What a run of an adapter leaves: the calls of logger.log and the outcome
Ran(logged, outcome) ==
    [log_calls |-> Len(logged), logged |-> logged, outcome |-> outcome]

\* GT8004Middleware.dispatch
FastAPIDispatch(call) ==
    IF call.path \in FastAPIExcludePaths THEN Ran(<<>>, AppOutcome(call))
    ELSE LET read == call.method \in {"POST", "PUT", "PATCH"}
             request_body_size == IF read THEN Sum(call.chunks) ELSE 0
             request_body == IF read /\ request_body_size <= BODY_LIMIT
                             THEN Decode(call.body, request_body_size,
                                         request_body_size)
                             ELSE NoText
             response_body_size == Sum(call.app.chunks)
             tool_name == extract_tool_name(call.protocol, request_body, call.path)
             x402 == Call_extract_x402_payment(<<call.x_payment>>)
             built == RequestLogEntry(EntryFields(
                         call.method, call.path, call.app.status, tool_name.value,
                         call.protocol,
                         IF request_body.kind = "str" THEN Some(request_body_size)
                         ELSE Nothing,
                         Some(request_body_size),
                         IF response_body_size <= BODY_LIMIT
                         THEN Some(response_body_size) ELSE Nothing,
                         Some(response_body_size), x402, None))
         IN IF call.app.raises THEN Ran(<<>>, AppOutcome(call))
            ELSE IF tool_name.raised # None THEN Ran(<<>>, Raises(tool_name.raised))
            ELSE IF x402.raised # None THEN Ran(<<>>, Raises(x402.raised))
            ELSE IF built.raised # None THEN Ran(<<>>, Raises(built.raised))
            ELSE IF call.log_raises THEN Ran(<<built.entry>>, Raises("LogError"))
            ELSE Ran(<<built.entry>>, AppOutcome(call))

\* GT8004ASGIMiddleware.__call__ for an http scope
ASGICall(call) ==
    IF call.path \in ASGIExcludePaths THEN Ran(<<>>, AppOutcome(call))
    ELSE LET request_body == IF call.app.reads_body
                             THEN Capture(call.chunks, 0) ELSE 0
             response_body == IF call.app.raises THEN 0
                              ELSE Capture(call.app.chunks, 0)
             status_code == IF call.app.raises THEN 0 ELSE call.app.status
             req_str == IF request_body > 0
                        THEN Decode(call.body, request_body, Sum(call.chunks))
                        ELSE NoText
             tool_name == extract_tool_name(call.protocol, req_str, call.path)
             x402 == Call_extract_x402_payment(<<call.x_payment>>)
             built == RequestLogEntry(EntryFields(
                         call.method, call.path, status_code, tool_name.value,
                         call.protocol,
                         IF request_body > 0 THEN Some(request_body) ELSE Nothing,
                         IF request_body > 0 THEN Some(request_body) ELSE Nothing,
                         IF response_body > 0 THEN Some(response_body) ELSE Nothing,
                         IF response_body > 0 THEN Some(response_body) ELSE Nothing,
                         x402, None))
             \* raised inside `finally`: it replaces the application's exception
             Replaced(exception) == [AppOutcome(call) EXCEPT !.raised = exception]
         IN IF tool_name.raised # None THEN Ran(<<>>, Replaced(tool_name.raised))
            ELSE IF x402.raised # None THEN Ran(<<>>, Replaced(x402.raised))
            ELSE IF built.raised # None THEN Ran(<<>>, Replaced(built.raised))
            ELSE Ran(<<built.entry>>, AppOutcome(call))

\* GT8004FlaskMiddleware.__call__
WSGICall(call) ==
    LET request_body_size == Sum(call.chunks)
        request_body == IF request_body_size > 0 /\ request_body_size <= BODY_LIMIT
                        THEN Decode(call.body, request_body_size, request_body_size)
                        ELSE NoText
        response_body_size == Sum(call.app.chunks)
        tool_name == extract_tool_name(call.protocol, request_body, call.path)
        x402 == Call_extract_x402_payment(<<call.x_payment,
                                            call.app.x_payment_response>>)
        built == RequestLogEntry(EntryFields(
                    call.method, call.path, call.app.status, tool_name.value,
                    call.protocol,
                    IF request_body.kind = "str" THEN Some(request_body_size)
                    ELSE Nothing,
                    Some(request_body_size),
                    IF response_body_size > 0 /\ response_body_size <= BODY_LIMIT
                    THEN Some(response_body_size) ELSE Nothing,
                    Some(response_body_size), x402, None))
    IN IF call.app.raises THEN Ran(<<>>, AppOutcome(call))
       ELSE IF tool_name.raised # None THEN Ran(<<>>, Raises(tool_name.raised))
       ELSE IF x402.raised # None THEN Ran(<<>>, Raises(x402.raised))
       ELSE IF built.raised # None THEN Ran(<<>>, Raises(built.raised))
       \* the coroutine of logger.log runs on the background loop: what it
       \* raises stays in its future
       ELSE Ran(<<built.entry>>, AppOutcome(call))

\* GT8004MCPMiddleware.on_call_tool; the chunks add up to len(json.dumps(args)).
\* `except Exception as e` is the clause that sets status 500 and error_type.
MCPOnCallTool(call) ==
    LET raw == Sum(call.chunks)
        caught == call.app.raises /\ IsException(call.app.exception)
        built == RequestLogEntry(EntryFields(
                    "tools/call", <<"/", "mcp", "/", "tools", "/", call.tool>>,
                    IF caught THEN 500 ELSE 200, JStr(call.tool), "mcp",
                    IF raw > 0 THEN Some(Min(raw, BODY_LIMIT)) ELSE Nothing,
                    Nothing, Nothing, Nothing, NoPayment,
                    IF caught THEN call.app.exception ELSE None))
        \* raised inside `finally`: it replaces the result or the exception
        Replaced(exception) == [AppOutcome(call) EXCEPT !.sent = FALSE,
                                                        !.raised = exception]
    IN IF built.raised # None THEN Ran(<<>>, Replaced(built.raised))
       ELSE IF call.log_raises THEN Ran(<<built.entry>>, Replaced("LogError"))
       ELSE Ran(<<built.entry>>, AppOutcome(call))

\* The observed calls: an excluded and a logged path, a body in one chunk or
\* in two, below, at and over BODY_LIMIT, with a string or a number as
\* skill_id, the payment headers absent, unreadable and valid
PaidRequest ==
    Json([NoDoc EXCEPT !.type = "dict",
                       !.payload = [type |-> "dict", authorization |-> "dict",
                                    value |-> JInt(750000)]])

Settled ==
    Json([NoDoc EXCEPT !.type = "dict", !.success = JBool(TRUE),
                       !.transaction = JStr("0xabc123"),
                       !.payer = JStr("0xdef456"),
                       !.network = JStr("base-mainnet")])

Skill(id) == Json([NoDoc EXCEPT !.type = "dict", !.skill_id = id])

Adapters == {"fastapi", "asgi", "flask", "mcp"}

ObservedCalls ==
    {[callee |-> callee, path |-> path, method |-> method, chunks |-> chunks,
      body |-> body, x_payment |-> x_payment, protocol |-> protocol,
      log_raises |-> log_raises, tool |-> "search",
      app |-> [raises |-> exception # None, exception |-> exception,
               status |-> 200, chunks |-> response,
               x_payment_response |-> x_payment_response,
               reads_body |-> reads_body]] :
        callee \in Adapters,
        path \in {<<"/", "health">>, <<"/", "api", "/", "search">>},
        method \in {"GET", "POST"},
        chunks \in {<<>>, <<1>>, <<BODY_LIMIT>>, <<BODY_LIMIT, 1>>},
        body \in {Text("empty"), Skill(JStr("translate")), Skill(JInt(5))},
        x_payment \in {NoText, Text("padding"), PaidRequest},
        protocol \in {None, "a2a"},
        log_raises \in BOOLEAN,
        exception \in {None, "ValueError", "CancelledError"},
        response \in {<<>>, <<1>>, <<BODY_LIMIT, 1>>},
        x_payment_response \in {NoText, Settled},
        reads_body \in BOOLEAN}

\* The body is empty exactly when no byte of it arrives
WellFormed(call) == (call.body = Text("empty")) <=> (Sum(call.chunks) = 0)

Adapter(run) ==
    /\ ~middleware.done
    /\ middleware' = [middleware EXCEPT !.done = TRUE, !.raised = run.outcome.raised,
                                        !.log_calls = run.log_calls,
                                        !.logged = run.logged,
                                        !.outcome = run.outcome]
    /\ UNCHANGED <<batch_size, buffer, lock_holder, lock_waiters, client_open,
                   flush_task, consecutive_failures, circuit_breaker_until, pr,
                   nextId, pings, delivered, facade>>

FastAPI == middleware.call.callee = "fastapi" /\ Adapter(FastAPIDispatch(middleware.call))

ASGI == middleware.call.callee = "asgi" /\ Adapter(ASGICall(middleware.call))

WSGI == middleware.call.callee = "flask" /\ Adapter(WSGICall(middleware.call))

MCP == middleware.call.callee = "mcp" /\ Adapter(MCPOnCallTool(middleware.call))

\* A request or tool call is about to reach an adapter
InitMiddleware ==
    /\ \E call \in {c \in ObservedCalls : WellFormed(c)} :
          middleware = [NoMiddleware EXCEPT !.call = call]
    /\ batch_size = 1
    /\ buffer = <<>>
    /\ lock_holder = None
    /\ lock_waiters = <<>>
    /\ client_open = TRUE
    /\ flush_task = None
    /\ consecutive_failures = 0
    /\ circuit_breaker_until = 0
    /\ pr = [p \in Procs |->
                IF p \in Tasks THEN [Fresh EXCEPT !.pc = "unborn"] ELSE Fresh]
    /\ nextId = 1
    /\ pings = {}
    /\ delivered = <<>>
    /\ facade = NoFacade

NextMiddleware ==
    \/ FastAPI
    \/ ASGI
    \/ WSGI
    \/ MCP

SpecMiddleware == InitMiddleware /\ [][NextMiddleware]_vars

\* -------------------------------------------------------------- properties

\* p has a batch out: a POST in flight, or a backoff sleep between two POSTs
InFlight(p) == pr[p].pc \in {"posting", "backoff"}

RECURSIVE Flat(_)
Flat(batches) ==
    IF batches = <<>> THEN <<>> ELSE Head(batches) \o Flat(Tail(batches))

Ascending(s) == \A i, j \in 1..Len(s) : i < j => s[i] < s[j]

\* The entries created so far, those of the batches answered 2xx, those of
\* the snapshots held by flushes, those of add() calls queued on the lock
Created == 1..(nextId - 1)
Acknowledged == SeqSet(Flat(delivered))
InBatches == UNION {SeqSet(pr[p].batch) : p \in Procs}
AwaitingLock ==
    {pr[p].entry : p \in {q \in Procs : pr[q].pc = "wait_lock" /\ pr[q].call = "add"}}

\* The entries the transport has taken in
Held == SeqSet(buffer) \cup InBatches \cup Acknowledged

NoTaskCancelled == \A t \in Tasks : pr[t].pc # "cancelled"

\* This step ends the flush of p with neither a 2xx nor a cancellation
Exhausts(p) ==
    /\ InFlight(p)
    /\ ~pr[p].cancel
    /\ ~(pr'[p].pc \in {"posting", "backoff"})
    /\ delivered' = delivered

\* This step appends entry e to the buffer
Appends(e) == e \notin Held /\ e \in Held'

\* After this step no add() call has a batch out
NoAddFlushes ==
    \A p \in Procs : pr'[p].call = "add" => ~(pr'[p].pc \in {"posting", "backoff"})

\* After this step p holds the lock with batch b as the one snapshot of its add()
TakesSnapshot(p, b) ==
    /\ pr'[p].pc \in {"posting", "backoff"}
    /\ pr'[p].call = "add"
    /\ pr'[p].batch = b
    /\ pr'[p].snaps = 1
    /\ buffer' = <<>>
    /\ lock_holder' = p

\* C1: as long as only add() and flush() run (no periodic task has been
\* cancelled by close()), every entry created is in the live buffer, in the
\* snapshot of a flush in progress, in a batch answered 2xx, or still with an
\* add() call that waits for the lock: none is dropped, and a flush whose
\* attempts all fail puts its entries back.
C1_NoEntryDropped ==
    NoTaskCancelled =>
        \A e \in Created :
            e \in SeqSet(buffer) \cup InBatches \cup Acknowledged \cup AwaitingLock

\* C1 witness: add(1) was delivered, add(2) failed three times and is back
\* in the buffer, with no periodic task ever started.
C1_Witness ==
    /\ delivered = << <<1>> >>
    /\ buffer = <<2>>
    /\ consecutive_failures = 1
    /\ \A t \in Tasks : pr[t].pc = "unborn"
    /\ \A p \in Callers : pr[p].pc = "idle"

\* C2: the step that ends a flush after its third failure leaves the buffer
\* holding the failed snapshot in its order, followed by what the buffer
\* held; buffer and snapshots list entries in the order of their add()
\* calls, so the next batch has the failed entries before later ones.
C2_RequeueKeepsOrder ==
    [][\A p \in Procs :
          /\ Exhausts(p) => buffer' = pr[p].batch \o buffer
          /\ Ascending(pr'[p].batch \o buffer')]_vars

\* C2 witness: with batch_size 1, entry 1 failed and was put back, entry 2
\* was added after the failure, and the next flush sends <<1, 2>>.
C2_Witness ==
    /\ batch_size = 1
    /\ consecutive_failures = 1
    /\ \E p \in Procs : pr[p].pc = "posting" /\ pr[p].batch = <<1, 2>>

\* C3 as stated, for a transport that was not closed: every add() that
\* brings the buffer to batch_size or more takes exactly one snapshot of the
\* whole buffer inside that call and submits it, and an add() that stays
\* below batch_size starts no POST.
C3_EveryThresholdAddFlushes ==
    [][\A e \in 1..nextId :
          Appends(e) /\ client_open =>
              IF Len(buffer) + 1 >= batch_size
              THEN \E p \in Procs : TakesSnapshot(p, Append(buffer, e))
              ELSE NoAddFlushes]_vars

\* C3 amended: an add() that brings the buffer to batch_size or more while
\* the circuit breaker is not open takes exactly one snapshot of the whole
\* buffer inside that call, under the lock it holds; an add() that stays
\* below batch_size, or that runs while the circuit breaker is open, only
\* appends and starts no POST.  No call ever takes a second snapshot.
C3_ThresholdAddFlushesUnlessOpen ==
    [][/\ \A e \in 1..nextId :
             Appends(e) =>
                 IF Len(buffer) + 1 >= batch_size /\ circuit_breaker_until = 0
                 THEN \E p \in Procs : TakesSnapshot(p, Append(buffer, e))
                 ELSE NoAddFlushes
       /\ \A p \in Procs : pr'[p].snaps <= 1]_vars

\* C3 witness: an add() that reached batch_size 2 has its snapshot out.
C3_Witness ==
    /\ batch_size = 2
    /\ \E p \in Callers :
          /\ pr[p].op = "add" /\ pr[p].pc = "posting" /\ pr[p].reached
          /\ pr[p].snaps = 1 /\ pr[p].batch = <<1, 2>> /\ lock_holder = p

\* What an operation started now would leave: buffer buf, no batch out,
\* nothing delivered, nothing raised to p
Quiet(T, p, buf) ==
    /\ T.buffer = buf
    /\ \A q \in Procs : ~(T.pr[q].pc \in {"posting", "backoff"})
    /\ T.delivered = delivered
    /\ T.consecutive_failures = consecutive_failures
    /\ T.circuit_breaker_until = circuit_breaker_until
    /\ T.pr[p].result # "raised"

\* A flush() a caller invokes now issues no POST and leaves the buffer alone
FlushNowIsNoOp ==
    \A p \in Callers : Ready(p) /\ lock_holder = None => Quiet(FlushBy(p), p, buffer)

\* C4: the step in which consecutive_failures reaches 5 (or more) sets
\* circuit_breaker_until to at least 30 seconds from then, and a flush()
\* invoked right after it issues no POST and leaves the buffer unchanged.
C4_BreakerOpensAfterFive ==
    [][(/\ consecutive_failures' = consecutive_failures + 1
        /\ consecutive_failures' >= FailureThreshold)
       => /\ circuit_breaker_until' >= CircuitBreakerSeconds
          /\ FlushNowIsNoOp']_vars

\* C4 witness: the fifth exhausted flush has just ended, the caller is free
\* to call flush() on a non-empty buffer.
C4_Witness ==
    /\ consecutive_failures = FailureThreshold
    /\ circuit_breaker_until = CircuitBreakerSeconds
    /\ buffer # <<>>
    /\ client_open
    /\ lock_holder = None
    /\ \A p \in Callers : pr[p].pc = "idle"

\* C5: while the circuit breaker is open no batch is out, and flush(), the
\* flush inside add(), the periodic flush and the final flush of close()
\* each return without a POST, without an error and with every entry still
\* buffered, add() having appended its entry; once the window is over a
\* flush of a non-empty buffer sends the whole buffer.
C5_OpenCircuitSuppressesSends ==
    /\ circuit_breaker_until > 0 =>
        /\ \A p \in Procs : ~InFlight(p)
        /\ lock_holder = None =>
            /\ \A p \in Callers : Ready(p) =>
                /\ Quiet(FlushBy(p), p, buffer)
                /\ Quiet(AddBy(p, nextId), p, Append(buffer, nextId))
                /\ Quiet(VerifyConnectionBy(p, nextId), p, Append(buffer, nextId))
                /\ (flush_task = None \/ pr[flush_task].pc = "cancelled")
                       => Quiet(CloseBy(p), p, buffer)
            /\ \A p \in Callers :
                   pr[p].pc = "await_task" /\ pr[pr[p].task].pc = "cancelled"
                       => Quiet(TaskJoinedBy(p), p, buffer)
            /\ \A t \in Tasks : pr[t].pc = "sleeping" /\ ~pr[t].cancel
                       => Quiet(AutoFlushBy(t), t, buffer)
    /\ (circuit_breaker_until = 0 /\ buffer # <<>> /\ lock_holder = None /\ client_open) =>
        \A p \in Callers : Ready(p) =>
            /\ FlushBy(p).pr[p].pc = "posting"
            /\ FlushBy(p).pr[p].batch = buffer
            /\ FlushBy(p).buffer = <<>>

\* C5 witness: the circuit is open, entries are buffered, the caller is free
\* and the periodic task is about to flush.
C5_Witness ==
    /\ circuit_breaker_until > 0
    /\ buffer # <<>>
    /\ lock_holder = None
    /\ \A p \in Callers : pr[p].pc = "idle"
    /\ \E t \in Tasks : pr[t].pc = "sleeping" /\ pr[t].timer = 0 /\ ~pr[t].cancel

\* This step takes the flush of p past its third failed attempt: p is out of
\* the retry loop, or (verify_connection going on from add() to flush()) in
\* the first attempt of its next flush
GivesUp(p) ==
    /\ InFlight(p)
    /\ ~pr[p].cancel
    /\ delivered' = delivered
    /\ ~(pr'[p].pc \in {"posting", "backoff"}) \/ pr'[p].attempt < pr[p].attempt

\* Over this step p stays in the retry loop of one flush
StaysInFlush(p) ==
    /\ InFlight(p)
    /\ pr'[p].pc \in {"posting", "backoff"}
    /\ pr'[p].attempt >= pr[p].attempt

\* After add(e1), add(e2) with batch_size 2, nothing delivered and the caller
\* back (no ping, no periodic task, no close)
TwoAddsUndelivered ==
    /\ batch_size = 2
    /\ nextId = 3
    /\ pings = {}
    /\ delivered = <<>>
    /\ client_open
    /\ \A t \in Tasks : pr[t].pc = "unborn"
    /\ \A p \in Callers : pr[p].pc = "idle"

\* C6: a failed first or second attempt leaves consecutive_failures and the
\* buffer as they are; the step that ends a flush after its third failure
\* adds exactly 1 to consecutive_failures and puts the snapshot back.  With
\* batch_size 2, after add(e1), add(e2) against an endpoint that fails every
\* POST the buffer is <<e1, e2>> again and consecutive_failures is at least 1.
C6_ExhaustedFlushCountsOnce ==
    [][/\ \A p \in Procs :
            /\ StaysInFlush(p) =>
                   /\ consecutive_failures' = consecutive_failures
                   /\ buffer' = buffer
            /\ GivesUp(p) =>
                   /\ consecutive_failures' = consecutive_failures + 1
                   /\ pr'[p].batch \o buffer' = pr[p].batch \o buffer
       /\ TwoAddsUndelivered' => (buffer' = <<1, 2>> /\ consecutive_failures' >= 1)]_vars

\* C6 witness: the scenario's end state.
C6_Witness ==
    /\ TwoAddsUndelivered
    /\ buffer = <<1, 2>>
    /\ consecutive_failures = 1

\* No entry of a batch answered 2xx is buffered, in a snapshot, or in a
\* second acknowledged batch
NeverResubmitted ==
    /\ Acknowledged \cap (SeqSet(buffer) \cup InBatches) = {}
    /\ Len(Flat(delivered)) = Cardinality(Acknowledged)

\* C7: a 2xx comes only to a POST in flight; the step that receives it sets
\* consecutive_failures to 0, ends the flush with no further attempt, and
\* records the snapshot as delivered without putting any of it back; no
\* delivered entry is ever buffered or submitted again.
C7_SuccessResetsAndDiscards ==
    [][/\ delivered' # delivered =>
            \E p \in Procs :
                /\ pr[p].pc = "posting"
                /\ delivered' = Append(delivered, pr[p].batch)
                /\ consecutive_failures' = 0
                /\ ~(pr'[p].pc \in {"posting", "backoff"})
                /\ pr'[p].batch = <<>>
                /\ buffer' = buffer
       /\ NeverResubmitted']_vars

\* C7 witness: with batch_size 1, entry 1 failed and was put back (so
\* consecutive_failures was not 0), and the batch <<1, 2>> then got a 2xx.
C7_Witness ==
    /\ batch_size = 1
    /\ delivered = << <<1, 2>> >>
    /\ consecutive_failures = 0
    /\ buffer = <<>>

\* C8: verify_connection() on an open transport returns True exactly when
\* the batch with its ping entry was answered 2xx, and False otherwise; it
\* never raises.
C8_VerifyReportsDelivery ==
    \A p \in Callers :
        (pr[p].pc = "returned" /\ pr[p].op = "verify_connection" /\ client_open) =>
            /\ pr[p].result \in {"True", "False"}
            /\ pr[p].result = "True" <=> pr[p].entry \in Acknowledged

\* C9: no call of add(), flush(), verify_connection() or close() ends with
\* an exception; a delivery failure shows only in the buffer, in
\* consecutive_failures and in circuit_breaker_until.
C9_NoDeliveryFailureRaised ==
    \A p \in Procs : pr[p].result # "raised"

\* C9 witness: a flush failed all its attempts and the caller is back with
\* the entries still buffered.
C9_Witness ==
    /\ consecutive_failures >= 1
    /\ buffer # <<>>
    /\ client_open
    /\ \A p \in Callers : pr[p].pc = "idle" /\ pr[p].result = None

\* C10: at most one flush has a batch out; it holds the lock from its
\* snapshot to its end, and meanwhile the buffer stays empty; a snapshot
\* exists only inside such a flush; a coroutine that waits for the lock is
\* queued behind its holder and its entry is not in the buffer.
C10_OneFlushUnderLock ==
    /\ Cardinality({p \in Procs : InFlight(p)}) <= 1
    /\ \A p \in Procs :
        /\ InFlight(p) => lock_holder = p /\ buffer = <<>>
        /\ pr[p].batch # <<>> => InFlight(p)
        /\ pr[p].pc = "wait_lock" =>
              /\ lock_holder # None
              /\ lock_holder = p \/ p \in SeqSet(lock_waiters)
              /\ pr[p].call = "add" => pr[p].entry \notin Held

\* C10 witness: the periodic flush has a batch out and an add() that
\* started meanwhile waits for the lock.
C10_Witness ==
    \E t \in Tasks, p \in Callers :
        /\ InFlight(t)
        /\ pr[p].pc = "wait_lock" /\ pr[p].call = "add"

\* The task close() cancels has terminated (or there is none)
PeriodicTaskOver == flush_task = None \/ pr[flush_task].pc = "cancelled"

\* Where each close() call stands: while it awaits the cancelled task it has
\* neither the lock nor a snapshot nor a POST; once past the await, the task
\* has terminated
CloseInOrder ==
    \A p \in Callers : pr[p].op = "close" =>
        IF pr[p].pc = "await_task"
        THEN /\ pr[p].task = flush_task
             /\ pr[flush_task].cancel \/ pr[flush_task].pc = "cancelled"
             /\ lock_holder # p
             /\ p \notin SeqSet(lock_waiters)
             /\ pr[p].snaps = 0 /\ pr[p].posts = 0 /\ pr[p].batch = <<>>
        ELSE /\ PeriodicTaskOver
             /\ pr[p].snaps <= 1

\* C11: close() first cancels the task in flush_task and waits until it has
\* terminated, then runs one flush(), then releases the client: a close()
\* that is past the await finds the task terminated, a terminated task
\* never runs again, and the client is released only by the step that ends
\* the final flush of a close().
C11_CloseOrder ==
    [][/\ CloseInOrder'
       /\ \A t \in Tasks : pr[t].pc = "cancelled" => pr'[t] = pr[t]
       /\ (client_open /\ ~client_open') =>
            \E p \in Callers :
                /\ pr[p].op = "close" \/ Ready(p)
                /\ pr[p].pc # "await_task" \/ pr[pr[p].task].pc = "cancelled"
                /\ PeriodicTaskOver
                /\ pr'[p] = Fresh
                /\ \A q \in Procs : pr'[q].op = "close" => ~InFlight(q)']_vars

\* C11 witness: the task was cancelled and has terminated, and the final
\* flush of close() has its POST in flight with the client still open.
C11_Witness ==
    \E p \in Callers :
        /\ pr[p].op = "close"
        /\ pr[p].pc = "posting"
        /\ flush_task # None
        /\ pr[flush_task].pc = "cancelled"
        /\ client_open

\* This step is the return of the first close(): the client is released
CloseReturns == client_open /\ ~client_open'

\* C12: when close() returns, every task start_auto_flush() created before
\* it has terminated, however many times start_auto_flush() was called.
C12_NoTaskOutlivesClose ==
    [][CloseReturns => \A t \in Tasks : pr'[t].pc \in {"unborn", "cancelled"}]_vars

\* C13: against an endpoint that answers 2xx to every POST, when close()
\* returns the buffer is empty and every entry added before it is in a batch
\* the endpoint answered 2xx.
C13_CloseDeliversEverything ==
    [][CloseReturns => (buffer' = <<>> /\ Created' \subseteq Acknowledged')]_vars

\* This step creates a periodic task or stores one in flush_task
CreatesTask ==
    \/ flush_task' # flush_task
    \/ \E t \in Tasks : pr[t].pc \in {"unborn", "cancelled"} /\ pr'[t] # pr[t]

\* C14: once close() has returned the client stays released and no batch
\* is answered any more, whatever is called; add() and flush() create no
\* task: a step that creates one or stores one in flush_task appends
\* nothing, flushes nothing and leaves every caller where it was.
C14_ClosedIsTerminal ==
    [][~client_open =>
        /\ ~client_open'
        /\ delivered' = delivered
        /\ Acknowledged' = Acknowledged
        /\ CreatesTask =>
              /\ buffer' = buffer /\ nextId' = nextId
              /\ \A p \in Callers : pr'[p] = pr[p]]_vars

\* C14 witness: on the closed transport a flush is retrying: its POST raised
\* at once and it sleeps in backoff.
C14_Witness ==
    /\ ~client_open
    /\ \E p \in Callers :
          /\ pr[p].op \in {"add", "flush"}
          /\ pr[p].pc = "backoff"
          /\ pr[p].batch # <<>>
          /\ pr[p].posts = 0

\* T differs from the present state at most in where p stands
SameButFor(T, p) ==
    /\ T.buffer = buffer
    /\ T.lock_holder = lock_holder
    /\ T.lock_waiters = lock_waiters
    /\ T.client_open = client_open
    /\ T.consecutive_failures = consecutive_failures
    /\ T.circuit_breaker_until = circuit_breaker_until
    /\ T.delivered = delivered
    /\ \A q \in Procs \ {p} : T.pr[q] = pr[q]

\* C15: with the buffer empty, flush() by a caller, the periodic flush, and
\* the flush of a coroutine that has just been given the lock each return
\* at once: no POST, no snapshot, and buffer, lock, consecutive_failures,
\* circuit_breaker_until and every other coroutine as before; the caller is
\* idle again, so the same holds for the next flush().
C15_EmptyFlushIsNoOp ==
    buffer = <<>> =>
        /\ lock_holder = None =>
            /\ \A p \in Callers : Ready(p) =>
                   /\ SameButFor(FlushBy(p), p)
                   /\ FlushBy(p).pr[p] = Fresh
            /\ \A t \in Tasks : (pr[t].pc = "sleeping" /\ ~pr[t].cancel) =>
                   /\ SameButFor(AutoFlushBy(t), t)
                   /\ AutoFlushBy(t).pr[t].pc = "sleeping"
                   /\ AutoFlushBy(t).pr[t].posts = 0
        /\ \A p \in Callers :
               (pr[p].pc = "wait_lock" /\ lock_holder = p /\ pr[p].op = "flush"
                    /\ lock_waiters = <<>>) =>
                   /\ CriticalSection(Cur, p).buffer = <<>>
                   /\ CriticalSection(Cur, p).pr[p] = Fresh
                   /\ CriticalSection(Cur, p).lock_holder = None
                   /\ CriticalSection(Cur, p).consecutive_failures = consecutive_failures
                   /\ CriticalSection(Cur, p).circuit_breaker_until = circuit_breaker_until
                   /\ CriticalSection(Cur, p).delivered = delivered

\* C15 witness: everything added has been delivered, the buffer is empty,
\* the caller is free to flush and the periodic flush is due.
C15_Witness ==
    /\ buffer = <<>>
    /\ lock_holder = None
    /\ delivered # <<>>
    /\ client_open
    /\ \A p \in Callers : pr[p].pc = "idle"
    /\ \E t \in Tasks : pr[t].pc = "sleeping" /\ pr[t].timer = 0 /\ ~pr[t].cancel

\* C16: while a periodic task has a batch out (its POST in flight, or a
\* backoff sleep) no add() of a request handler waits for the lock.
C16_AddNeverWaitsForPeriodicFlush ==
    \A t \in Tasks, p \in Callers :
        InFlight(t) => ~(pr[p].pc = "wait_lock" /\ pr[p].call = "add")

\* The GT8004Logger(...) call has been made
Constructed == facade.logger.called

\* The network the call names, "mainnet" when it names none
NetworkGiven == IF facade.args.network = Omitted THEN "mainnet" ELSE facade.args.network

\* C17: every entry that went through log() keeps the protocol it came
\* with when it had one, has the logger's protocol when it had none, is one
\* of mcp, a2a or unset, and is the entry the transport took in.
C17_LogFillsUnsetProtocolOnly ==
    /\ Len(facade.protocol) = Len(facade.given)
    /\ Len(facade.protocol) > 0 => Len(facade.protocol) = nextId - 1
    /\ \A e \in 1..Len(facade.protocol) :
        /\ facade.given[e] # None => facade.protocol[e] = facade.given[e]
        /\ facade.given[e] = None => facade.protocol[e] = facade.logger.protocol
        /\ facade.protocol[e] \in {None, "mcp", "a2a"}
        /\ e \in Held

\* C17 witness: a logger built with protocol mcp has logged an entry that
\* came without protocol and one that came with a2a.
C17_Witness ==
    /\ Constructed
    /\ facade.logger.protocol = "mcp"
    /\ facade.given = <<None, "a2a">>
    /\ facade.protocol = <<"mcp", "a2a">>

\* C18: a call with a network other than mainnet or testnet, or with a
\* protocol that is neither null nor mcp nor a2a, raises ValueError naming
\* the allowed values, and leaves no transport (so nothing is ever logged).
C18_BadConfigurationRaises ==
    Constructed =>
        /\ NetworkGiven \notin {"mainnet", "testnet"} =>
              /\ facade.logger.raised = "ValueError"
              /\ facade.logger.allowed = {"mainnet", "testnet"}
        /\ (NetworkGiven \in {"mainnet", "testnet"}
                /\ facade.args.protocol \notin {Omitted, None, "mcp", "a2a"}) =>
              /\ facade.logger.raised = "ValueError"
              /\ facade.logger.allowed = {"mcp", "a2a"}
        /\ facade.logger.raised # None =>
              /\ ~facade.logger.transport.created
              /\ facade.given = <<>> /\ buffer = <<>> /\ nextId = 1

\* C18 witness: the call named testnet and protocol http, and raised.
C18_Witness ==
    /\ Constructed
    /\ facade.args.network = "testnet"
    /\ facade.args.protocol = "http"
    /\ facade.logger.raised = "ValueError"

\* C19: the transport a call leaves has the explicit ingest_url when the
\* call gave one, whatever network it named; else the mainnet URL for
\* mainnet (also when no network is named) and the testnet URL for testnet.
C19_IngestUrlSelection ==
    (Constructed /\ facade.logger.transport.created) =>
        facade.logger.transport.ingest_url =
            IF facade.args.ingest_url \notin {Omitted, None}
            THEN facade.args.ingest_url
            ELSE IF NetworkGiven = "mainnet"
            THEN "https://ingest.gt8004.xyz/v1/ingest"
            ELSE "https://testnet.ingest.gt8004.xyz/v1/ingest"

\* C19 witness: the call named testnet and an explicit URL, and the
\* transport has the explicit URL.
C19_Witness ==
    /\ Constructed
    /\ facade.args.network = "testnet"
    /\ facade.args.ingest_url = "http://localhost:9092/v1/ingest"
    /\ facade.logger.transport.created
    /\ facade.logger.transport.ingest_url = "http://localhost:9092/v1/ingest"

\* The wire name of each entry field, written out
WireNames == {
     <<<<"r", "e", "q", "u", "e", "s", "t", "_", "i", "d">>,
       <<"r", "e", "q", "u", "e", "s", "t", "I", "d">>>>,
     <<<<"m", "e", "t", "h", "o", "d">>,
       <<"m", "e", "t", "h", "o", "d">>>>,
     <<<<"p", "a", "t", "h">>,
       <<"p", "a", "t", "h">>>>,
     <<<<"s", "t", "a", "t", "u", "s", "_", "c", "o", "d", "e">>,
       <<"s", "t", "a", "t", "u", "s", "C", "o", "d", "e">>>>,
     <<<<"r", "e", "s", "p", "o", "n", "s", "e", "_", "m", "s">>,
       <<"r", "e", "s", "p", "o", "n", "s", "e", "M", "s">>>>,
     <<<<"c", "u", "s", "t", "o", "m", "e", "r", "_", "i", "d">>,
       <<"c", "u", "s", "t", "o", "m", "e", "r", "I", "d">>>>,
     <<<<"t", "o", "o", "l", "_", "n", "a", "m", "e">>,
       <<"t", "o", "o", "l", "N", "a", "m", "e">>>>,
     <<<<"e", "r", "r", "o", "r", "_", "t", "y", "p", "e">>,
       <<"e", "r", "r", "o", "r", "T", "y", "p", "e">>>>,
     <<<<"x", "4", "0", "2", "_", "a", "m", "o", "u", "n", "t">>,
       <<"x", "4", "0", "2", "A", "m", "o", "u", "n", "t">>>>,
     <<<<"x", "4", "0", "2", "_", "t", "x", "_", "h", "a", "s", "h">>,
       <<"x", "4", "0", "2", "T", "x", "H", "a", "s", "h">>>>,
     <<<<"x", "4", "0", "2", "_", "t", "o", "k", "e", "n">>,
       <<"x", "4", "0", "2", "T", "o", "k", "e", "n">>>>,
     <<<<"x", "4", "0", "2", "_", "p", "a", "y", "e", "r">>,
       <<"x", "4", "0", "2", "P", "a", "y", "e", "r">>>>,
     <<<<"r", "e", "q", "u", "e", "s", "t", "_", "b", "o", "d", "y">>,
       <<"r", "e", "q", "u", "e", "s", "t", "B", "o", "d", "y">>>>,
     <<<<"r", "e", "s", "p", "o", "n", "s", "e", "_", "b", "o", "d", "y">>,
       <<"r", "e", "s", "p", "o", "n", "s", "e", "B", "o", "d", "y">>>>,
     <<<<"r", "e", "q", "u", "e", "s", "t", "_", "b", "o", "d", "y", "_", "s", "i", "z", "e">>,
       <<"r", "e", "q", "u", "e", "s", "t", "B", "o", "d", "y", "S", "i", "z", "e">>>>,
     <<<<"r", "e", "s", "p", "o", "n", "s", "e", "_", "b", "o", "d", "y", "_", "s", "i", "z", "e">>,
       <<"r", "e", "s", "p", "o", "n", "s", "e", "B", "o", "d", "y", "S", "i", "z", "e">>>>,
     <<<<"h", "e", "a", "d", "e", "r", "s">>,
       <<"h", "e", "a", "d", "e", "r", "s">>>>,
     <<<<"i", "p", "_", "a", "d", "d", "r", "e", "s", "s">>,
       <<"i", "p", "A", "d", "d", "r", "e", "s", "s">>>>,
     <<<<"u", "s", "e", "r", "_", "a", "g", "e", "n", "t">>,
       <<"u", "s", "e", "r", "A", "g", "e", "n", "t">>>>,
     <<<<"r", "e", "f", "e", "r", "e", "r">>,
       <<"r", "e", "f", "e", "r", "e", "r">>>>,
     <<<<"c", "o", "n", "t", "e", "n", "t", "_", "t", "y", "p", "e">>,
       <<"c", "o", "n", "t", "e", "n", "t", "T", "y", "p", "e">>>>,
     <<<<"a", "c", "c", "e", "p", "t", "_", "l", "a", "n", "g", "u", "a", "g", "e">>,
       <<"a", "c", "c", "e", "p", "t", "L", "a", "n", "g", "u", "a", "g", "e">>>>,
     <<<<"p", "r", "o", "t", "o", "c", "o", "l">>,
       <<"p", "r", "o", "t", "o", "c", "o", "l">>>>,
     <<<<"s", "o", "u", "r", "c", "e">>,
       <<"s", "o", "u", "r", "c", "e">>>>,
     <<<<"t", "i", "m", "e", "s", "t", "a", "m", "p">>,
       <<"t", "i", "m", "e", "s", "t", "a", "m", "p">>>>
}

\* The wire names of the payment and body fields
PaymentBodyWireNames == {
    <<"x", "4", "0", "2", "A", "m", "o", "u", "n", "t">>,
    <<"x", "4", "0", "2", "T", "x", "H", "a", "s", "h">>,
    <<"x", "4", "0", "2", "T", "o", "k", "e", "n">>,
    <<"x", "4", "0", "2", "P", "a", "y", "e", "r">>,
    <<"r", "e", "q", "u", "e", "s", "t", "B", "o", "d", "y">>,
    <<"r", "e", "s", "p", "o", "n", "s", "e", "B", "o", "d", "y">>,
    <<"r", "e", "q", "u", "e", "s", "t", "B", "o", "d", "y", "S", "i", "z", "e">>,
    <<"r", "e", "s", "p", "o", "n", "s", "e", "B", "o", "d", "y", "S", "i", "z", "e">>
}

Alphanumeric ==
    SeqSet(AsciiLowercase) \cup SeqSet(AsciiUppercase)
        \cup {"0", "1", "2", "3", "4", "5", "6", "7", "8", "9"}

\* A name in lower camel case: letters and digits only, a small letter first
LowerCamel(s) ==
    /\ s # <<>>
    /\ s[1] \in SeqSet(AsciiLowercase)
    /\ \A i \in 1..Len(s) : s[i] \in Alphanumeric

\* The fields of an entry that hold a value
SetFields(entry) == {f \in DOMAIN entry : entry[f] # None}

\* C20: the dumped batch has the keys agentId, sdkVersion and entries; the
\* dumped entry has, for each field that holds a value (0 and "" included),
\* exactly one key, the field's name in lower camel case (x402_tx_hash gives
\* x402TxHash), with that value, and no key for a field that is None: with
\* the payment and body fields all None none of their keys is there, with
\* all of them set all eight are.
C20_WireIsCamelCaseWithoutNulls ==
    facade.dumped =>
        /\ facade.batch_wire = {<<"a", "g", "e", "n", "t", "I", "d">>,
                                <<"s", "d", "k", "V", "e", "r", "s", "i", "o", "n">>,
                                <<"e", "n", "t", "r", "i", "e", "s">>}
        /\ \A kv \in facade.wire : LowerCamel(kv[1]) /\ kv[2] # None
        /\ \A nw \in WireNames :
              IF facade.entry[nw[1]] # None
              THEN <<nw[2], facade.entry[nw[1]]>> \in facade.wire
              ELSE \A kv \in facade.wire : kv[1] # nw[2]
        /\ Cardinality(facade.wire) = Cardinality(SetFields(facade.entry))
        /\ {nw[1] : nw \in WireNames} = DOMAIN facade.entry
        /\ Cardinality({kv[1] : kv \in facade.wire} \cap PaymentBodyWireNames)
              = Cardinality(SetFields(facade.entry) \cap PaymentBodyFields)

\* C20 witness: an entry with x402_tx_hash set, x402_amount 0 and the other
\* payment and body fields None has been dumped.
C20_Witness ==
    /\ facade.dumped
    /\ <<<<"x", "4", "0", "2", "T", "x", "H", "a", "s", "h">>, "truthy">> \in facade.wire
    /\ <<<<"x", "4", "0", "2", "A", "m", "o", "u", "n", "t">>, "falsy">> \in facade.wire
    /\ Cardinality({kv[1] : kv \in facade.wire} \cap PaymentBodyWireNames) = 2

\* An adapter has seen a call through
Observed(callee) == middleware.done /\ middleware.call.callee = callee

\* The call is on a path the adapter's exclude_paths holds; the WSGI and the
\* FastMCP adapter exclude nothing
OnExcludedPath ==
    \/ middleware.call.callee = "fastapi" /\ middleware.call.path \in FastAPIExcludePaths
    \/ middleware.call.callee = "asgi" /\ middleware.call.path \in ASGIExcludePaths

\* C21: every adapter calls logger.log exactly once for a call on a path it
\* does not exclude, whether the handler returns or raises, and never for a
\* call on an excluded path, which it passes through unchanged.
C21_OneLogPerObservedCall ==
    (\E callee \in Adapters : Observed(callee)) =>
        IF OnExcludedPath
        THEN middleware.log_calls = 0 /\ middleware.outcome = AppOutcome(middleware.call)
        ELSE middleware.log_calls = 1

\* C22: in every adapter the caller gets the handler's response, or the
\* handler's own exception, as it would without the adapter, whatever fails
\* in building the entry, extracting its fields or calling logger.log.
C22_LoggingNeverMasksOutcome ==
    (\E callee \in Adapters : Observed(callee)) =>
        middleware.outcome = AppOutcome(middleware.call)

\* A request the handler answers, with nothing in it that makes the logging
\* fail: the tool name is the path's segment, logger.log returns
PlainRequest ==
    /\ ~OnExcludedPath
    /\ ~middleware.call.app.raises
    /\ ~middleware.call.log_raises
    /\ middleware.call.protocol = None

\* C23: the FastAPI middleware serves and logs the request with the amount
\* (value / 1,000,000), the transaction hash, the token USDC-<network> and the
\* payer when X-Payment and X-Payment-Response are valid, and with all four
\* payment fields None when the headers are absent or malformed.
C23_FastAPIPaymentFields ==
    (Observed("fastapi") /\ PlainRequest) =>
        /\ middleware.outcome = AppOutcome(middleware.call)
        /\ middleware.log_calls = 1
        /\ LET entry == middleware.logged[1]
           IN /\ (middleware.call.x_payment = PaidRequest
                    /\ middleware.call.app.x_payment_response = Settled) =>
                      /\ entry.x402_amount =
                            [none |-> FALSE, num |-> 750000, den |-> 1000000]
                      /\ entry.x402_tx_hash = JStr("0xabc123")
                      /\ entry.x402_token = JStr("USDC-base-mainnet")
                      /\ entry.x402_payer = JStr("0xdef456")
              /\ (middleware.call.x_payment \in {NoText, Text("padding")}
                    /\ middleware.call.app.x_payment_response = NoText) =>
                      /\ entry.x402_amount = Nothing
                      /\ entry.x402_tx_hash = JNone
                      /\ entry.x402_token = JNone
                      /\ entry.x402_payer = JNone

\* An extraction function has been called and has ended
Extracted(callee) == middleware.done /\ middleware.call.callee = callee

\* A header from which nothing can be read: absent, empty, not decodable as
\* base64, base64 of something that is no JSON, or JSON that is no object
Unreadable(t) ==
    \/ t.kind = "None"
    \/ t.text \in {"empty", "padding", "binary", "invalid", "nested"}
    \/ t.text = "json" /\ t.doc.type # "dict"

\* An X-Payment object without payload.authorization.value, or with a value
\* that is no number
WrongShapeRequest(t) ==
    /\ t.text = "json"
    /\ t.doc.type = "dict"
    /\ \/ t.doc.payload.type # "dict"
       \/ t.doc.payload.authorization # "dict"
       \/ t.doc.payload.value.type \in {"absent", "null", "dict", "list"}
       \/ t.doc.payload.value = JStr("abc")

\* An X-Payment-Response object that does not report a success
WrongShapeResponse(t) ==
    /\ t.text = "json"
    /\ t.doc.type = "dict"
    /\ t.doc.success \in {JAbsent, JNone, JBool(FALSE)}

\* C24: extract_x402_payment raises for no pair of header values; an X-Payment
\* that is absent, empty, not base64, not JSON or of the wrong shape leaves the
\* amount None, and such an X-Payment-Response leaves the transaction hash,
\* the token and the payer None.
C24_PaymentExtractionNeverRaises ==
    Extracted("extract_x402_payment") =>
        /\ middleware.raised = None
        /\ middleware.x402.raised = None
        /\ (Unreadable(middleware.call.x_payment)
              \/ WrongShapeRequest(middleware.call.x_payment)) =>
                 middleware.x402.x402_amount = Nothing
        /\ (Unreadable(middleware.call.app.x_payment_response)
              \/ WrongShapeResponse(middleware.call.app.x_payment_response)) =>
                 /\ middleware.x402.x402_tx_hash = JNone
                 /\ middleware.x402.x402_token = JNone
                 /\ middleware.x402.x402_payer = JNone

\* An X-Payment that is no base64 met with a settled X-Payment-Response: the
\* amount is None, the settlement fields are read
C24_Witness ==
    /\ Extracted("extract_x402_payment")
    /\ middleware.call.x_payment = Text("padding")
    /\ middleware.call.app.x_payment_response.text = "json"
    /\ middleware.x402.x402_amount = Nothing
    /\ middleware.x402.x402_tx_hash = JStr("0xabc123")
    /\ middleware.x402.x402_token = JStr("USDC-base-mainnet")
    /\ middleware.x402.x402_payer = JStr("0xdef456")

\* The body is a JSON object
IsObject(body) == body.kind = "str" /\ body.text = "json" /\ body.doc.type = "dict"

\* The last segment of the path that is not empty, "" when there is none
LastNonEmptySegment(path) ==
    IF \A i \in 1..Len(path) : path[i] = "/" THEN ""
    ELSE path[CHOOSE i \in 1..Len(path) :
                 path[i] # "/" /\ \A j \in (i + 1)..Len(path) : path[j] = "/"]

\* params.name of a tools/call object, None when it has none
ParamsName(doc) ==
    IF doc.params.type = "dict" /\ doc.params.name # JAbsent
    THEN doc.params.name ELSE JNone

\* C25: extract_tool_name never raises, and returns for "mcp" params.name of
\* a tools/call object and None otherwise, for "a2a" the non-empty skill_id of
\* the object and else the last non-empty path segment, for any other protocol
\* the last non-empty path segment.
C25_ToolNameByProtocol ==
    Extracted("extract_tool_name") =>
        LET body == middleware.call.body
            segment == JStr(LastNonEmptySegment(middleware.call.path))
        IN /\ middleware.raised = None
           /\ middleware.call.protocol = "mcp" =>
                middleware.tool_name =
                    IF IsObject(body) /\ body.doc.method = JStr("tools/call")
                    THEN ParamsName(body.doc) ELSE JNone
           /\ middleware.call.protocol = "a2a" =>
                middleware.tool_name =
                    IF IsObject(body)
                       /\ body.doc.skill_id \notin {JAbsent, JNone, JStr("")}
                    THEN body.doc.skill_id ELSE segment
           /\ middleware.call.protocol \notin {"mcp", "a2a"} =>
                middleware.tool_name = segment

\* C26: in every HTTP adapter the entry's request and response body text is
\* at most BODY_LIMIT bytes long, and request_body_size and
\* response_body_size are the byte lengths of the whole bodies, over the cap
\* too.
C26_BodyCapAndSizes ==
    ((\E callee \in {"fastapi", "asgi", "flask"} : Observed(callee)) /\ PlainRequest) =>
        /\ middleware.log_calls = 1
        /\ LET entry == middleware.logged[1]
           IN /\ entry.request_body.num <= BODY_LIMIT
              /\ entry.response_body.num <= BODY_LIMIT
              /\ entry.request_body_size = Some(Sum(middleware.call.chunks))
              /\ entry.response_body_size = Some(Sum(middleware.call.app.chunks))

\* This step is the 2xx response to the POST of p
Succeeds(p) == InFlight(p) /\ delivered' # delivered

\* C27: one flush sends at most 3 POSTs; a 2xx ends it with its batch
\* acknowledged and not sent again; it gives up only after the third failed
\* attempt, three POSTs sent (on a client closed meanwhile the remaining
\* attempts fail without sending); between its first and its last attempt the
\* batch stays the one snapshot it took.
C27_ThreeAttemptsOneBatch ==
    [][\A p \in Procs :
        /\ pr'[p].posts <= MaxAttempts
        /\ StaysInFlush(p) =>
              /\ pr'[p].batch = pr[p].batch
              /\ pr'[p].snaps = pr[p].snaps
              /\ pr'[p].posts \in {pr[p].posts, pr[p].posts + 1}
              /\ buffer' = buffer
        /\ GivesUp(p) =>
              \/ /\ pr[p].pc = "posting"
                 /\ pr[p].attempt = MaxAttempts - 1
                 /\ pr[p].posts = MaxAttempts
              \/ /\ pr[p].pc = "backoff"
                 /\ pr[p].attempt = MaxAttempts - 2
                 /\ ~client_open
        /\ Succeeds(p) =>
              /\ pr[p].pc = "posting"
              /\ pr[p].posts = pr[p].attempt + 1
              /\ delivered' = Append(delivered, pr[p].batch)
              /\ SeqSet(pr'[p].batch) \cap SeqSet(pr[p].batch) = {}
              /\ SeqSet(buffer') \cap SeqSet(pr[p].batch) = {}]_vars

\* C27 witness: the third POST of a flush is out, with the batch of the
\* snapshot.
C27_Witness ==
    \E p \in Procs :
        /\ pr[p].pc = "posting"
        /\ pr[p].attempt = MaxAttempts - 1
        /\ pr[p].posts = MaxAttempts
        /\ pr[p].snaps = 1
        /\ pr[p].batch = <<1, 2>>

\* C28: a failed first attempt starts a sleep of 1 second, a failed second
\* attempt one of 2 seconds; the next POST goes out only when the sleep has
\* run to its end; a failed third attempt starts no sleep: the batch goes
\* back to the head of the buffer in the same step.
C28_BackoffBetweenAttempts ==
    [][\A p \in Procs :
        /\ (pr[p].pc = "posting" /\ pr'[p].pc = "backoff") =>
              /\ pr'[p].attempt = pr[p].attempt
              /\ pr[p].attempt \in {0, 1}
              /\ pr'[p].timer = IF pr[p].attempt = 0 THEN 1 ELSE 2
        /\ (pr[p].pc = "backoff" /\ pr'[p].pc = "backoff"
              /\ pr'[p].attempt = pr[p].attempt) =>
              pr'[p].timer \in {pr[p].timer, pr[p].timer - 1}
        /\ (pr[p].pc = "backoff" /\ ~pr[p].cancel
              /\ ~(pr'[p].pc = "backoff" /\ pr'[p].attempt = pr[p].attempt)) =>
              pr[p].timer = 0
        /\ (pr[p].pc = "backoff" /\ pr'[p].pc = "posting") =>
              /\ pr'[p].attempt = pr[p].attempt + 1
              /\ pr'[p].posts = pr[p].posts + 1
        /\ (pr[p].pc = "posting" /\ pr[p].attempt = MaxAttempts - 1
              /\ ~pr[p].cancel /\ delivered' = delivered
              /\ pr'[p].pc # "posting") =>
              /\ pr'[p].pc # "backoff"
              /\ buffer' = pr[p].batch \o buffer]_vars

\* C28 witness: the second attempt has failed and its sleep of 2 seconds has
\* begun.
C28_Witness ==
    \E p \in Procs :
        /\ pr[p].pc = "backoff"
        /\ pr[p].attempt = 1
        /\ pr[p].timer = 2
        /\ pr[p].posts = 2

\* C29: no entry is in the buffer and in a batch in flight at once; a flush
\* of a non-empty buffer with the circuit closed takes the whole buffer, in
\* its order and whatever batch_size is, as its batch and leaves the buffer
\* empty by the time its first POST is out; while a batch is in flight the
\* buffer is empty.
C29_SnapshotTakesWholeBuffer ==
    /\ \A p \in Procs : SeqSet(pr[p].batch) \cap SeqSet(buffer) = {}
    /\ \A p \in Procs : InFlight(p) => pr[p].batch # <<>> /\ buffer = <<>>
    /\ \A p \in Callers :
          (Ready(p) /\ lock_holder = None /\ client_open /\ buffer # <<>>
             /\ ~CircuitOpen(Cur)) =>
              /\ FlushBy(p).pr[p].batch = buffer
              /\ FlushBy(p).buffer = <<>>
              /\ FlushBy(p).pr[p].pc = "posting"
              /\ FlushBy(p).pr[p].posts = 1
              /\ FlushBy(p).pr[p].snaps = 1

\* C29 witness: with batch_size 1 a batch of two entries is in flight, the
\* buffer empty.
C29_Witness ==
    \E p \in Procs :
        /\ batch_size = 1
        /\ pr[p].pc = "posting"
        /\ pr[p].attempt = 0
        /\ pr[p].batch = <<1, 2>>
        /\ buffer = <<>>

\* C30: the batches answered 2xx, taken in the order of their responses,
\* list entries in the order their add() calls appended them, and no entry
\* twice.
C30_DeliveredInAddOrder ==
    /\ Ascending(Flat(delivered))
    /\ \A i, j \in 1..Len(delivered) :
          i # j => SeqSet(delivered[i]) \cap SeqSet(delivered[j]) = {}
    /\ \A i \in 1..Len(delivered) : delivered[i] # <<>>

\* C30 witness: with batch_size 1 the first entry, put back by a failed
\* flush, is acknowledged ahead of the second in one batch.
C30_Witness ==
    /\ batch_size = 1
    /\ delivered = <<<<1, 2>>>>
    /\ buffer = <<>>

\* The periodic task t is in its asyncio.sleep(self.flush_interval)
Waiting(t) == pr[t].pc = "sleeping"

\* The periodic task t neither holds the lock nor queues for it
LockFree(t) == lock_holder # t /\ t \notin SeqSet(lock_waiters)

\* C31: start_auto_flush() only creates the task, asleep for one full
\* flush_interval, and changes nothing else (no batch, no POST, lock, buffer
\* and the caller as before); a task leaves its sleep for a flush only when
\* the interval has run down to 0, a second passing at a time; after each
\* flush (one of an empty buffer is over at once) it sleeps one full
\* interval again; while it sleeps it neither holds
\* the lock nor queues for it; and it ends only when it has been cancelled.
C31_PeriodicTaskSleepsThenFlushes ==
    [][\A t \in Tasks :
        /\ (pr[t].pc = "unborn" /\ pr'[t].pc # "unborn") =>
               /\ pr'[t] = [Fresh EXCEPT !.pc = "sleeping", !.op = "auto_flush",
                                         !.timer = FlushIntervalSeconds]
               /\ \A q \in Procs \ {t} : pr'[q] = pr[q]
               /\ UNCHANGED <<buffer, lock_holder, lock_waiters, delivered,
                              client_open, consecutive_failures,
                              circuit_breaker_until>>
        /\ (Waiting(t) /\ pr'[t].pc = "sleeping") =>
               \/ pr'[t].timer \in {pr[t].timer, pr[t].timer - 1}
               \/ pr[t].timer = 0 /\ pr'[t].timer = FlushIntervalSeconds
        /\ (Waiting(t) /\ pr'[t].pc \notin {"sleeping", "cancelled"}) =>
               /\ pr[t].timer = 0
               /\ pr'[t].call = "flush"
        /\ (pr[t].pc \notin {"unborn", "sleeping"} /\ pr'[t].pc = "sleeping") =>
               /\ pr'[t].timer = FlushIntervalSeconds
               /\ pr'[t].batch = <<>>
        /\ Waiting(t) => LockFree(t)
        /\ pr'[t].pc = "sleeping" => (lock_holder' # t /\ t \notin SeqSet(lock_waiters'))
        /\ (pr[t].pc # "cancelled" /\ pr'[t].pc = "cancelled") => pr[t].cancel
        /\ pr[t].pc = "cancelled" => pr'[t].pc = "cancelled"
      ]_vars

\* C31 witness: a periodic task has slept its interval and now holds the
\* lock with its POST in flight, after an earlier batch was delivered.
C31_Witness ==
    \E t \in Tasks :
        /\ pr[t].pc = "posting"
        /\ lock_holder = t
        /\ ~pr[t].cancel
        /\ delivered # <<>>
        /\ \A p \in Callers : pr[p].pc = "idle"

\* C32: when verify_connection() has returned on an open transport its entry
\* is a ping entry (request_id "startup-ping", status_code 0, source
\* "sdk_ping") and is never lost: it is in a batch answered 2xx, or in the
\* buffer, or in the snapshot of a periodic flush that took it from there.
\* With no failure standing (consecutive_failures 0, which is all a healthy
\* endpoint ever leaves) it has been answered 2xx and the buffer is empty,
\* whatever batch_size is; with the ping not answered 2xx a failure is on the
\* count and the ping is buffered again.
C32_VerifyDeliversPing ==
    \A p \in Callers :
        (pr[p].pc = "returned" /\ pr[p].op = "verify_connection" /\ client_open) =>
            /\ pr[p].entry \in pings
            /\ PingEntry.request_id = "startup-ping"
            /\ PingEntry.status_code = 0
            /\ PingEntry.source = "sdk_ping"
            /\ pr[p].entry \in Acknowledged \cup SeqSet(buffer) \cup InBatches
            /\ consecutive_failures = 0 =>
                   /\ pr[p].entry \in Acknowledged
                   /\ buffer = <<>>
            /\ pr[p].entry \notin Acknowledged =>
                   /\ consecutive_failures > 0
                   /\ pr[p].entry \in SeqSet(buffer) \cup InBatches

\* C32 witness: with batch_size 2 and one entry buffered, verify_connection()
\* has returned with the entry and the ping delivered in one batch.
C32_Witness ==
    /\ batch_size = 2
    /\ delivered = <<<<1, 2>>>>
    /\ pings = {2}
    /\ buffer = <<>>
    /\ consecutive_failures = 0
    /\ \A p \in Callers : pr[p].pc = "returned" /\ pr[p].op = "verify_connection"
                              /\ pr[p].entry = 2

\* This step is the failure of the third attempt of the flush of p: of its
\* third POST, or on a closed client of the attempt after its second backoff
ThirdAttemptFails(p) ==
    /\ GivesUp(p)
    /\ \/ pr[p].pc = "posting" /\ pr[p].attempt = MaxAttempts - 1
       \/ pr[p].pc = "backoff" /\ pr[p].attempt = MaxAttempts - 2 /\ ~client_open

\* C33: consecutive_failures changes only in the step of a 2xx answer (to 0)
\* and in the step in which a third attempt fails (by +1);
\* circuit_breaker_until, apart from the clock running the window down a
\* second at a time, changes only in the step in which a third attempt fails
\* and brings consecutive_failures to 5 or more, and is then 30 seconds; an
\* add() below batch_size, a flush of an empty buffer and a flush with the
\* circuit open leave both as they were.
C33_BreakerChangesAtFlushEnd ==
    [][/\ consecutive_failures' # consecutive_failures =>
              \/ consecutive_failures' = 0 /\ \E p \in Procs : Succeeds(p)
              \/ /\ consecutive_failures' = consecutive_failures + 1
                 /\ \E p \in Procs : ThirdAttemptFails(p)
       /\ circuit_breaker_until' # circuit_breaker_until =>
              \/ /\ circuit_breaker_until' = circuit_breaker_until - 1
                 /\ UNCHANGED <<buffer, delivered, consecutive_failures,
                                lock_holder, lock_waiters, client_open>>
              \/ /\ circuit_breaker_until' = CircuitBreakerSeconds
                 /\ consecutive_failures' = consecutive_failures + 1
                 /\ consecutive_failures' >= FailureThreshold
                 /\ \E p \in Procs : ThirdAttemptFails(p)
       /\ \A p \in Callers : (Ready(p) /\ lock_holder = None) =>
              /\ Len(buffer) + 1 < batch_size =>
                     /\ AddBy(p, nextId).consecutive_failures = consecutive_failures
                     /\ AddBy(p, nextId).circuit_breaker_until = circuit_breaker_until
                     /\ AddBy(p, nextId).pr[p] = Fresh
              /\ (buffer = <<>> \/ CircuitOpen(Cur)) =>
                     /\ FlushBy(p).consecutive_failures = consecutive_failures
                     /\ FlushBy(p).circuit_breaker_until = circuit_breaker_until
                     /\ FlushBy(p).pr[p] = Fresh
      ]_vars

\* C33 witness: a second flush has failed two attempts and waits in its
\* backoff, and the count still stands at the one flush that was exhausted.
C33_Witness ==
    /\ consecutive_failures = 1
    /\ circuit_breaker_until = 0
    /\ \E p \in Procs : pr[p].pc = "backoff" /\ pr[p].attempt = MaxAttempts - 2

\* C34: the second in which the circuit-breaker window runs out leaves
\* consecutive_failures as it was, at 5 or more; a third failed attempt with
\* the count at 5 or more comes with the circuit shut and opens it for 30
\* seconds again, the count going up by one; the count goes down only by a
\* 2xx answer, and then to 0; and the circuit opens only with the count at 5
\* or more.
C34_WindowExpiryKeepsCount ==
    [][/\ (circuit_breaker_until > 0 /\ circuit_breaker_until' = 0) =>
              /\ consecutive_failures' = consecutive_failures
              /\ consecutive_failures' >= FailureThreshold
       /\ (consecutive_failures >= FailureThreshold
               /\ \E p \in Procs : ThirdAttemptFails(p)) =>
              /\ circuit_breaker_until = 0
              /\ circuit_breaker_until' = CircuitBreakerSeconds
              /\ consecutive_failures' = consecutive_failures + 1
       /\ consecutive_failures' < consecutive_failures =>
              /\ consecutive_failures' = 0
              /\ \E p \in Procs : Succeeds(p)
       /\ (circuit_breaker_until = 0 /\ circuit_breaker_until' > 0) =>
              consecutive_failures' >= FailureThreshold
      ]_vars

\* C34 witness: the circuit has just been opened a second time, by the one
\* flush exhausted after the first window had run out.
C34_Witness ==
    /\ consecutive_failures = FailureThreshold + 1
    /\ circuit_breaker_until = CircuitBreakerSeconds
    /\ buffer # <<>>

\* In T the close() of p has returned normally with the client released
CloseEnds(T, p) ==
    /\ ~T.client_open
    /\ T.pr[p] = Fresh
    /\ T.lock_holder # p
    /\ p \notin SeqSet(T.lock_waiters)

\* T and F leave the same buffer, count, window and deliveries
SameFlushEffect(T, F) ==
    /\ T.buffer = F.buffer
    /\ T.consecutive_failures = F.consecutive_failures
    /\ T.circuit_breaker_until = F.circuit_breaker_until
    /\ T.delivered = F.delivered

\* The present state with the operation of p taken for a plain flush()
AsFlush(p) == [Cur EXCEPT !.pr[p].op = "flush"]

\* C35: no close() call ends with an exception.  Where the final flush of a
\* close() has its POST out, a 2xx ends the call with the client released; a
\* failure of an earlier attempt keeps it in the retry loop; a failure of the
\* third attempt (on a client already closed: of the attempt after the second
\* backoff) ends the call with the client released, the batch back in the
\* buffer, consecutive_failures one higher and the window set to 30 seconds
\* if that makes 5 or more, all exactly as the same failure leaves them for
\* a flush().  With the circuit open, a close() whose periodic task is over
\* returns at once with the client released and buffer, count and window as
\* they were.
C35_CloseReleasesClient ==
    \A p \in Callers :
        /\ pr[p].op = "close" => pr[p].result = None /\ pr[p].pc # "returned"
        /\ (pr[p].op = "close" /\ pr[p].pc = "posting") =>
            /\ CloseEnds(OnSuccess(Cur, p), p)
            /\ \A o \in Outcomes \ {"2xx"} :
                LET T == Throw(Cur, p, Raised(o))
                    F == Throw(AsFlush(p), p, Raised(o))
                    cf == consecutive_failures + 1
                IN IF pr[p].attempt < MaxAttempts - 1
                   THEN T.pr[p].pc = "backoff" /\ T.client_open = client_open
                   ELSE /\ CloseEnds(T, p)
                        /\ SameFlushEffect(T, F)
                        /\ T.buffer = pr[p].batch \o buffer
                        /\ T.buffer # <<>>
                        /\ T.delivered = delivered
                        /\ T.consecutive_failures = cf
                        /\ T.circuit_breaker_until =
                               IF cf >= FailureThreshold THEN CircuitBreakerSeconds
                               ELSE circuit_breaker_until
        /\ (pr[p].op = "close" /\ pr[p].pc = "backoff" /\ ~client_open
                /\ pr[p].attempt = MaxAttempts - 2) =>
            LET T == Attempt([Cur EXCEPT !.pr[p].attempt = @ + 1], p)
                F == Attempt([AsFlush(p) EXCEPT !.pr[p].attempt = @ + 1], p)
            IN /\ CloseEnds(T, p)
               /\ SameFlushEffect(T, F)
               /\ T.buffer = pr[p].batch \o buffer
               /\ T.consecutive_failures = consecutive_failures + 1
        /\ (CircuitOpen(Cur) /\ lock_holder = None) =>
            /\ (Ready(p) /\ PeriodicTaskOver) =>
                   /\ CloseEnds(CloseBy(p), p)
                   /\ SameFlushEffect(CloseBy(p), Cur)
            /\ (pr[p].pc = "await_task" /\ pr[pr[p].task].pc = "cancelled") =>
                   /\ CloseEnds(TaskJoinedBy(p), p)
                   /\ SameFlushEffect(TaskJoinedBy(p), Cur)

\* C35 witness: the final flush of a close() is at its third POST with four
\* failures counted: one more failure ends close() and opens the circuit.
C35_Witness ==
    \E p \in Callers :
        /\ pr[p].op = "close"
        /\ pr[p].pc = "posting"
        /\ pr[p].attempt = MaxAttempts - 1
        /\ consecutive_failures = FailureThreshold - 1
        /\ client_open

\* The call of p has not returned yet
Busy(p) == ~Ready(p)

\* The model's cap of consecutive_failures stops the retries on a closed client
Capped == ~client_open /\ consecutive_failures >= MaxFailures

\* Only a coroutine inside add() or flush() holds the lock or queues for it:
\* none that has returned, sleeps between two periodic flushes, awaits the
\* cancelled task, or has terminated
LockOnlyInFlush ==
    \A p \in Procs :
        /\ lock_holder = p => pr[p].pc \in {"wait_lock", "posting", "backoff"}
        /\ p \in SeqSet(lock_waiters) => pr[p].pc = "wait_lock" /\ lock_holder # None

\* C36: under a fair event loop, with every POST answered or failed, every
\* add(), flush() and close() call returns (up to the model's cap of
\* consecutive_failures on a closed client); the lock is never left with a
\* coroutine that is not in a flush, a cancelled task included.
C36_EveryCallReturns ==
    /\ \A p \in Callers : Busy(p) ~> (Ready(p) \/ Capped)
    /\ []LockOnlyInFlush

\* C36 witness: close() awaits the task it has cancelled while that task
\* holds the lock with its POST in flight.
C36_Witness ==
    \E p \in Callers, t \in Tasks :
        /\ pr[p].op = "close"
        /\ pr[p].pc = "await_task"
        /\ pr[t].cancel
        /\ pr[t].pc = "posting"
        /\ lock_holder = t

\* C37: the FastMCP adapter has logged one entry for the tool call, with
\* method tools/call, protocol mcp and the tool's name; a handler that
\* returned is logged with status_code 200 and no error_type and its result
\* goes to the caller; a handler that raised is logged with status_code 500
\* and the class name of its exception, which goes to the caller.
C37_MCPLogsEveryToolCall ==
    Observed("mcp") =>
        /\ middleware.log_calls = 1
        /\ middleware.outcome = AppOutcome(middleware.call)
        /\ LET entry == middleware.logged[1]
               app == middleware.call.app
           IN /\ entry.method = "tools/call"
              /\ entry.protocol = "mcp"
              /\ entry.tool_name = JStr(middleware.call.tool)
              /\ entry.path = <<"/", "mcp", "/", "tools", "/", middleware.call.tool>>
              /\ ~app.raises => entry.status_code = 200 /\ entry.error_type = None
              /\ app.raises => entry.status_code = 500
                                   /\ entry.error_type = app.exception

\* The three fields of a result that the settlement gives
SettlementFields(r) == <<r.x402_tx_hash, r.x402_payer, r.x402_token>>

\* The header decodes to a JSON object
ReadsAsObject(t) == TruthyText(t) /\ ~Unreadable(t)

\* C38: what extract_x402_payment returns as transaction hash, payer and
\* token is the same for every X-Payment sent along, and any of them is set
\* only from an X-Payment-Response object whose success is truthy, each from
\* its own key, the token as "USDC-" and the network; the amount is the same
\* for every X-Payment-Response sent along, absent, unreadable or
\* unsuccessful ones included, and is payload.authorization.value over
\* 1,000,000 whenever that value is there and is a number; a value of 0 gives
\* the amount 0, not None.
C38_PaymentHeadersIndependent ==
    Extracted("extract_x402_payment") =>
        LET req == middleware.call.x_payment
            resp == middleware.call.app.x_payment_response
            got == middleware.x402
            value == req.doc.payload.value
        IN /\ \A other \in PaymentRequests :
                 SettlementFields(extract_x402_payment(other, resp))
                     = SettlementFields(got)
           /\ \A other \in PaymentResponses :
                 extract_x402_payment(req, other).x402_amount = got.x402_amount
           /\ SettlementFields(got) # <<JNone, JNone, JNone>> =>
                 ReadsAsObject(resp) /\ Truthy(Get(resp.doc.success))
           /\ (ReadsAsObject(resp) /\ Truthy(Get(resp.doc.success))) =>
                 /\ got.x402_tx_hash = IF resp.doc.transaction = JAbsent THEN JNone
                                       ELSE str(resp.doc.transaction)
                 /\ got.x402_payer = Get(resp.doc.payer)
                 /\ got.x402_token = IF resp.doc.network = JAbsent THEN JNone
                                     ELSE JStr("USDC-" \o resp.doc.network.s)
           /\ got.x402_amount # Nothing =>
                 /\ ReadsAsObject(req)
                 /\ ~WrongShapeRequest(req)
                 /\ got.x402_amount = [none |-> FALSE, num |-> int(value).n,
                                       den |-> USDC_UNITS]
           /\ (ReadsAsObject(req) /\ ~WrongShapeRequest(req)) =>
                 got.x402_amount # Nothing
           /\ (ReadsAsObject(req) /\ ~WrongShapeRequest(req) /\ value = JInt(0)) =>
                 got.x402_amount = [none |-> FALSE, num |-> 0, den |-> USDC_UNITS]

\* C38 witness: an X-Payment with the value 0 and an X-Payment-Response that
\* reports no success: the amount is 0 and no settlement field is set.
C38_Witness ==
    /\ Extracted("extract_x402_payment")
    /\ ReadsAsObject(middleware.call.x_payment)
    /\ ~WrongShapeRequest(middleware.call.x_payment)
    /\ middleware.call.x_payment.doc.payload.value = JInt(0)
    /\ ReadsAsObject(middleware.call.app.x_payment_response)
    /\ middleware.call.app.x_payment_response.doc.success = JBool(FALSE)
    /\ middleware.call.app.x_payment_response.doc.transaction = JStr("0xabc123")
    /\ middleware.x402.x402_amount = [none |-> FALSE, num |-> 0, den |-> USDC_UNITS]
    /\ SettlementFields(middleware.x402) = <<JNone, JNone, JNone>>

====
